---------------------------- MODULE Spec2Model ----------------------------
(***************************************************************************)
(* Model of the AS5047U driver (src/src/AS5047U.cpp, src/inc/AS5047U.hpp): *)
(* the frame codec, the two-frame transaction engine, the sticky error     *)
(* store and the retry loops of the high-level API.  The bus adapter and   *)
(* the sensor behind it are the environment: every byte clocked in is a    *)
(* nondeterministic choice from a small set of frames.                     *)
(***************************************************************************)
EXTENDS Integers, Sequences, FiniteSets, TLC


(***************************************************************************)
(* Bounds of the model.                                                    *)
(***************************************************************************)
\* a caller of the free-running bus passes retries in 0..MaxSmallRetries
MaxSmallRetries == 1
\* the scripted adapter emits up to MaxFaults faulty answers, or one more than
\* the largest uint8_t
MaxFaults == 2

(***************************************************************************)
(* Program constants.                                                      *)
(***************************************************************************)
UINT8_MAX == 255
NOP_ADDRESS == 0
ERRFL_ADDRESS == 1
PROG_ADDRESS == 3
ZPOSM_ADDRESS == 22
ZPOSL_ADDRESS == 23
SETTINGS3_ADDRESS == 26
ECC_ADDRESS == 27
ECC_Checksum_ADDRESS == 16336
DIA_ADDRESS == 16373
AGC_ADDRESS == 16377
SINDATA_ADDRESS == 16378
COSDATA_ADDRESS == 16379
VEL_ADDRESS == 16380
MAG_ADDRESS == 16381
ANGLEUNC_ADDRESS == 16382
ANGLECOM_ADDRESS == 16383
\* AS5047U_Error enumerators
AgcWarning == 1
FramingError == 16
CommandError == 32
CrcError == 64
\* AS5047U_CFG::CRC_RETRIES, the default retries argument
CRC_RETRIES == 0
\* the number of polls of PROG programOTP makes at most
PROG_POLLS == 15000

FrameFormats == {"SPI_16", "SPI_24", "SPI_32"}

(***************************************************************************)
(* C++ integer operators on unsigned words.                                *)
(***************************************************************************)
RECURSIVE BitAnd(_, _)
BitAnd(a, b) ==
  IF a = 0 \/ b = 0 THEN 0
  ELSE (a % 2) * (b % 2) + 2 * BitAnd(a \div 2, b \div 2)

RECURSIVE BitOr(_, _)
BitOr(a, b) ==
  IF a = 0 THEN b
  ELSE IF b = 0 THEN a
  ELSE (IF a % 2 = 1 \/ b % 2 = 1 THEN 1 ELSE 0) + 2 * BitOr(a \div 2, b \div 2)

\* (x >> n) & 1
Bit(x, n) == (x \div (2 ^ n)) % 2

\* a ^ b on uint8_t operands, bit by bit
XorBit(a, b, n) == ((Bit(a, n) + Bit(b, n)) % 2) * (2 ^ n)
BitXor(a, b) ==
  XorBit(a, b, 0) + XorBit(a, b, 1) + XorBit(a, b, 2) + XorBit(a, b, 3)
    + XorBit(a, b, 4) + XorBit(a, b, 5) + XorBit(a, b, 6) + XorBit(a, b, 7)

(***************************************************************************)
(* AS5047U::computeCRC8: polynomial 0x1D, initial value 0xC4, MSB first    *)
(* over 16 bits, final XOR 0xFF.  crc is a uint8_t: the shift is truncated *)
(* to eight bits on assignment.                                            *)
(***************************************************************************)
\* one pass through the loop body, for every crc and every bit of data16:
\*   bool bit = ((data16 >> (15 - i)) & 1) ^ ((crc >> 7) & 1);
\*   crc = (crc << 1) ^ (bit ? 0x1D : 0x00);
crcStep ==
  [crc \in 0 .. 255 |->
     [dataBit \in 0 .. 1 |->
        LET bit == (dataBit + Bit(crc, 7)) % 2 = 1
        IN  BitXor((crc * 2) % 256, IF bit THEN 29 ELSE 0)]]

\* the sixteen passes of the loop, i = 0 innermost
crcLoop(data16) ==
  crcStep[crcStep[crcStep[crcStep[crcStep[crcStep[crcStep[crcStep[
  crcStep[crcStep[crcStep[crcStep[crcStep[crcStep[crcStep[crcStep[196]
    [Bit(data16, 15)]]
    [Bit(data16, 14)]]
    [Bit(data16, 13)]]
    [Bit(data16, 12)]]
    [Bit(data16, 11)]]
    [Bit(data16, 10)]]
    [Bit(data16, 9)]]
    [Bit(data16, 8)]]
    [Bit(data16, 7)]]
    [Bit(data16, 6)]]
    [Bit(data16, 5)]]
    [Bit(data16, 4)]]
    [Bit(data16, 3)]]
    [Bit(data16, 2)]]
    [Bit(data16, 1)]]
    [Bit(data16, 0)]

\* the loop's result without the final ^ 0xFF
crcWithoutFinalXor(data16) == crcLoop(data16)
computeCRC8(data16) == BitXor(crcLoop(data16), 255)


(***************************************************************************)
(* Words the model sends or is sent.                                       *)
(***************************************************************************)
\* AS5047U_REG::*::ADDRESS
RegisterAddresses ==
  {0, 1, 3, 21, 22, 23, 24, 25, 26, 27,
   16336, 16373, 16377, 16378, 16379, 16380, 16381, 16382, 16383}

\* register contents the sensor may answer with (bits 15..14 are status bits)
DataWords == {4660, 65535}
\* further contents of VEL: the largest positive and the most negative velocity
VelWords == {8191, 8192}
\* ERRFL contents the sensor may answer with
ErrflWords == {0, AgcWarning, CrcError}
\* values the caller hands to writeRegister (0xD234: more than 14 bits)
WriteValues == {53812}

\* computeCRC8 over the words that occur in a frame, evaluated once
\* the registers programOTP snapshots: 0x0016 .. 0x001A
ShadowFirst == 22
ShadowLast == 26
\* what the shadow registers hold when programOTP snapshots them, what ECC and
\* ECC_Checksum hold, and what PROG may read as while the burn runs
ShadowWords == {4660}
EccWords == {4660}
\* what ECC_Checksum reads as once ECC is enabled
ChecksumWords == {213}
ProgWords == {1, 9}

\* ecc.bits.ECC_en = 1 (bit 7)
withEccEn(v) == v - Bit(v, 7) * 128 + 128
\* an ECC word whose checksum field is left as it was read
keepEccChsum(v, key) == v
\* ecc.bits.ECC_chsum = key (bits 6..0)
withEccChsum(v, key) == v - (v % 128) + (key % 128)
\* the values programOTP writes to ECC
EccWrites ==
  {withEccEn(e % 16384) : e \in EccWords}
    \cup {withEccChsum(withEccEn(e % 16384), k % 16384) : e \in EccWords, k \in ChecksumWords}

CrcInputs ==
  RegisterAddresses \cup {16384 + a : a \in RegisterAddresses}
    \cup {v % 16384 : v \in WriteValues} \cup DataWords \cup ErrflWords
    \cup {FramingError} \cup (0 .. 255) \cup ShadowWords \cup EccWords \cup EccWrites \cup VelWords
    \cup {(w % 16384) - (w % 256) + b : w \in DataWords, b \in 0 .. 255}
    \cup {(w % 16384) + t * 16384 : w \in DataWords \cup ErrflWords, t \in 0 .. 3}

crc8 == [w \in CrcInputs |-> computeCRC8(w)]

(***************************************************************************)
(* State.                                                                  *)
(***************************************************************************)
VARIABLES
  frameFormat,   \* AS5047U::frameFormat
  padByte,       \* AS5047U::padByte
  stickyErrors,  \* AS5047U::stickyErrors
  pc,            \* "idle", or the retry loop the running call is in
  retries,       \* the retries argument of the running or last retrying call
  i,             \* the running loop's counter (uint8_t; uint16_t in programOTP's poll loop)
  val,           \* the running getter's local val (l in getZeroPosition)
  m,             \* getZeroPosition's local m
  address,       \* the register the latest attempt read or wrote
  value,         \* writeRegister's value argument
  ret,           \* what the last finished call returned (a number)
  success,       \* what the last finished writeRegister or setter returned
  lastCall,      \* the last finished call
  drains,        \* getStickyErrorFlags calls since the last transaction (0, 1, 2 = more)
  firstDrain,    \* what the first of them returned
  txLog,         \* frames handed to spi.transfer by the latest attempt, in order
  crcBad,        \* the CRC byte of the latest target read's frame B did not match
  attempts,      \* loop bodies the running or last retrying call has executed
  lastErr,       \* the error flags the latest attempt tested
  rawErrfl,      \* union of the ERRFL payloads clocked in since the last drain
  seenRetry,     \* CrcError/FramingError bits ERRFL reported during the getter call
  seenOther,     \* other bits in the store before the getter call or reported during it
  cleanAt,       \* first attempt of the write whose ERRFL value was clean, or 0
  script,        \* "free", or the kind of fault the scripted adapter emits
  scriptK,       \* faulty answers the scripted adapter was programmed with
  faultsLeft,    \* faulty answers the scripted adapter still has to give
  otp,           \* the locals of programOTP and the record of the running or last call
  setter,        \* the locals of the running setter and the record of the running or last one
  rawRead,       \* the 14-bit value the latest readRegister of the running or last call returned
  upd,           \* a thread inside updateStickyErrors: its argument, its position, what drains took
  dev,           \* a sensor that stores what is written: its ZPOSM and ZPOSL registers
  pair           \* two runs of one readRegister call: what the bus answered, what each left

vars ==
  <<frameFormat, padByte, stickyErrors, pc, retries, i, val, m, address, value,
    ret, success, lastCall, drains, firstDrain, txLog, crcBad, attempts, lastErr, rawErrfl,
    seenRetry, seenOther, cleanAt, script, scriptK, faultsLeft, otp, setter,
    rawRead, upd, dev, pair>>

(***************************************************************************)
(* The bus adapter: spiBus::transfer clocks in as many bytes as it clocks  *)
(* out.  What comes in is the environment's choice: any answer of a small  *)
(* set (script = "free"), or the answers an adapter programmed with        *)
(* scriptK faulty answers followed by valid ones gives.                    *)
(***************************************************************************)
\* the bytes of one incoming frame carrying the 16-bit word w and CRC byte c
RxFrame(fmt, w, c) ==
  CASE fmt = "SPI_16" -> <<w \div 256, w % 256>>
    [] fmt = "SPI_24" -> <<w \div 256, w % 256, c>>
    [] fmt = "SPI_32" -> <<0, w \div 256, w % 256, c>>

RxGood(fmt, w) == RxFrame(fmt, w, crc8[w])
RxCorrupt(fmt, w) == RxFrame(fmt, w, (crc8[w] + 1) % 256)

\* free bus, frame B of a read of a data register: any word, CRC byte right or wrong
RxData(fmt) == {RxGood(fmt, w) : w \in DataWords} \cup {RxCorrupt(fmt, w) : w \in DataWords}

\* free bus, frame B of a read of VEL
RxVel(fmt) == RxData(fmt) \cup {RxGood(fmt, w) : w \in VelWords}

\* free bus, frame B of a read of ERRFL
RxErrfl(fmt) == {RxGood(fmt, w) : w \in ErrflWords}

ScriptKinds == {"crcFault", "errflCrc", "errflFraming"}
\* the word a scripted adapter answers a data read with
ScriptWords == [valid |-> 65535, faulty |-> 4660]
\* the ERRFL bit a scripted sensor reports after a faulty attempt
ScriptErr(kind) ==
  CASE kind = "errflCrc" -> CrcError
    [] kind = "errflFraming" -> FramingError
    [] OTHER -> 0

\* the scripted adapter's answers to one attempt: frame B of the attempt's first
\* read and frame B of the ERRFL read that follows it
ScriptAnswers(fmt, target, kind, faulty) ==
  LET e == IF faulty THEN ScriptErr(kind) ELSE 0
  IN  IF target = ERRFL_ADDRESS
        THEN <<RxGood(fmt, e), RxGood(fmt, 0)>>
        ELSE <<IF faulty /\ kind = "crcFault"
                 THEN RxCorrupt(fmt, ScriptWords.faulty)
                 ELSE RxGood(fmt, ScriptWords.valid),
               RxGood(fmt, e)>>

\* the answers <<frame B of the first read, frame B of the following ERRFL read>>
\* the bus may give to one attempt whose first read is of register target
BusAnswers(target) ==
  IF script = "free"
    THEN (IF target = ERRFL_ADDRESS THEN RxErrfl(frameFormat)
          ELSE IF target = VEL_ADDRESS THEN RxVel(frameFormat)
          ELSE RxData(frameFormat))
           \X RxErrfl(frameFormat)
    ELSE {ScriptAnswers(frameFormat, target, script, faultsLeft > 0)}

\* the scripted adapter has given one more answer
ScriptStep == faultsLeft' = (IF faultsLeft > 0 THEN faultsLeft - 1 ELSE 0)

(***************************************************************************)
(* Transaction engine.  x & 0x3FFF is written x % 16384, x >> 8 is         *)
(* x \div 256, and a | of disjoint bit ranges is a sum.                    *)
(***************************************************************************)
\* AS5047U::rawReadRegister: the two frames sent and the value returned, given
\* what is clocked in during frame B (rxDataFrame).  crcMismatch is the
\* condition crcDevice != crcCalc, whose branch is empty in the code
rawReadRegister(addr, rxDataFrame) ==
  CASE frameFormat = "SPI_16" ->
         LET cmd == 16384 + (addr % 16384)
             raw == rxDataFrame[1] * 256 + rxDataFrame[2]
         IN  [tx |-> << <<cmd \div 256, cmd % 256>>, <<0, 0>> >>,
              crcMismatch |-> FALSE,
              result |-> raw % 16384]
    [] frameFormat = "SPI_24" ->
         LET crcInput == 16384 + (addr % 16384)
             nopCrcInput == 16384 + (NOP_ADDRESS % 16384)
             raw == rxDataFrame[1] * 256 + rxDataFrame[2]
             crcDevice == rxDataFrame[3]
         IN  [tx |-> << <<((addr \div 256) % 64) + 64, addr % 256, crc8[crcInput]>>,
                        <<((NOP_ADDRESS \div 256) % 64) + 64, NOP_ADDRESS % 256,
                          crc8[nopCrcInput]>> >>,
              crcMismatch |-> crcDevice # crc8[raw],
              result |-> raw % 16384]
    [] frameFormat = "SPI_32" ->
         LET crcInput == 16384 + (addr % 16384)
             nopCrcInput == 16384 + (NOP_ADDRESS % 16384)
             raw == rxDataFrame[2] * 256 + rxDataFrame[3]
             crcDevice == rxDataFrame[4]
         IN  [tx |-> << <<padByte, ((addr \div 256) % 64) + 64, addr % 256,
                          crc8[crcInput]>>,
                        <<padByte, ((NOP_ADDRESS \div 256) % 64) + 64,
                          NOP_ADDRESS % 256, crc8[nopCrcInput]>> >>,
              crcMismatch |-> crcDevice # crc8[raw],
              result |-> raw % 16384]

\* a raw read that takes its result from what came in during frame A
rawReadRegisterFromCmd(addr, rxCmd, rxDataFrame) == rawReadRegister(addr, rxCmd)
\* AS5047U::rawReadRegister with both transfers: rxCmd is what spi.transfer
\* clocks in during frame A, into a buffer the function does not read
rawReadRegisterRx(addr, rxCmd, rxDataFrame) == rawReadRegister(addr, rxDataFrame)

\* the ERRFL bit positions updateStickyErrors tests, in its order
\* every bit of the low eleven, the reserved bit 8 included
StickyBitOrderAll == <<0, 1, 2, 3, 4, 5, 6, 7, 8, 9, 10>>

StickyBitOrder == <<0, 1, 2, 3, 4, 5, 6, 7, 9, 10>>

\* a plain store of the bit in place of the OR
orStickyBitStore(sticky, errfl, n) ==
  IF Bit(errfl, n) = 1 THEN 2 ^ n ELSE sticky

\* one "if (errfl & (1u << n)) stickyErrors |= 1 << n"
orStickyBit(sticky, errfl, n) ==
  IF Bit(errfl, n) = 1 /\ Bit(sticky, n) = 0 THEN sticky + 2 ^ n ELSE sticky

RECURSIVE updateStickyFrom(_, _, _)
updateStickyFrom(sticky, errfl, k) ==
  IF k > Len(StickyBitOrder) THEN sticky
  ELSE updateStickyFrom(orStickyBit(sticky, errfl, StickyBitOrder[k]), errfl, k + 1)

\* AS5047U::updateStickyErrors: the store after the call
updateStickyErrors(sticky, errfl) == updateStickyFrom(sticky, errfl, 1)

\* a load of the store that leaves it as it is
loadStickyErrorFlags(sticky) == [ret |-> sticky, sticky |-> sticky]

\* AS5047U::getStickyErrorFlags: stickyErrors.exchange(0)
getStickyErrorFlags(sticky) == [ret |-> sticky, sticky |-> 0]

\* what readRegister leaves behind, given its raw read rd, the raw read sw of
\* ERRFL and the store before
sweepResult(rd, sw, sticky) ==
  [tx |-> rd.tx \o sw.tx,
   val |-> rd.result,
   err |-> sw.result,
   crcMismatch |-> rd.crcMismatch,
   sticky |-> updateStickyErrors(sticky, sw.result)]

\* a register read that does not fetch ERRFL afterwards
readRegisterRawOnly(sticky, addr, rx) ==
  sweepResult(rawReadRegister(addr, rx[1]), [tx |-> <<>>, result |-> 0], sticky)

\* AS5047U::readRegister: a raw read of addr, then a raw read of ERRFL whose
\* result goes to the sticky store.  rx = <<frame B, frame B of the ERRFL read>>
readRegister(sticky, addr, rx) ==
  sweepResult(rawReadRegister(addr, rx[1]), rawReadRegister(ERRFL_ADDRESS, rx[2]),
              sticky)

\* write frames whose CRC byte in SPI_32 is computed over the pad byte and the
\* byte that follows it
writeFramesPadInCrc(addr, v) ==
  CASE frameFormat = "SPI_16" ->
         << <<(addr % 16384) \div 256, addr % 256>>,
            <<(v % 16384) \div 256, v % 256>> >>
    [] frameFormat = "SPI_24" ->
         << <<(addr \div 256) % 64, addr % 256, computeCRC8(addr % 16384)>>,
            <<(v % 16384) \div 256, v % 256, computeCRC8(v % 16384)>> >>
    [] frameFormat = "SPI_32" ->
         << <<padByte, (addr \div 256) % 64, addr % 256,
              computeCRC8(padByte * 256 + ((addr \div 256) % 64))>>,
            <<padByte, (v % 16384) \div 256, v % 256,
              computeCRC8(padByte * 256 + ((v % 16384) \div 256))>> >>

\* write frames whose data frame carries all 16 bits of the value
writeFramesUnmasked(addr, v) ==
  CASE frameFormat = "SPI_16" ->
         << <<(addr % 16384) \div 256, addr % 256>>, <<v \div 256, v % 256>> >>
    [] frameFormat = "SPI_24" ->
         << <<(addr \div 256) % 64, addr % 256, computeCRC8(addr % 16384)>>,
            <<v \div 256, v % 256, computeCRC8(v % 16384)>> >>
    [] frameFormat = "SPI_32" ->
         << <<padByte, (addr \div 256) % 64, addr % 256, computeCRC8(addr % 16384)>>,
            <<padByte, v \div 256, v % 256, computeCRC8(v % 16384)>> >>

\* write frames that are one byte short in SPI_32: no pad byte
writeFramesNoPad(addr, v) ==
  CASE frameFormat = "SPI_16" ->
         << <<(addr % 16384) \div 256, addr % 256>>,
            <<(v % 16384) \div 256, v % 256>> >>
    [] frameFormat \in {"SPI_24", "SPI_32"} ->
         << <<(addr \div 256) % 64, addr % 256, computeCRC8(addr % 16384)>>,
            <<(v % 16384) \div 256, v % 256, computeCRC8(v % 16384)>> >>

\* write frames whose first byte in SPI_32 is always 0
writeFramesZeroPad(addr, v) ==
  CASE frameFormat = "SPI_16" ->
         << <<(addr % 16384) \div 256, addr % 256>>,
            <<(v % 16384) \div 256, v % 256>> >>
    [] frameFormat = "SPI_24" ->
         << <<(addr \div 256) % 64, addr % 256, computeCRC8(addr % 16384)>>,
            <<(v % 16384) \div 256, v % 256, computeCRC8(v % 16384)>> >>
    [] frameFormat = "SPI_32" ->
         << <<0, (addr \div 256) % 64, addr % 256, computeCRC8(addr % 16384)>>,
            <<0, (v % 16384) \div 256, v % 256, computeCRC8(v % 16384)>> >>

\* the two frames one attempt of AS5047U::writeRegister sends: address, data
writeFrames(addr, v) ==
  CASE frameFormat = "SPI_16" ->
         LET cmd == addr % 16384
             dataFrame == v % 16384
         IN  << <<cmd \div 256, cmd % 256>>, <<dataFrame \div 256, dataFrame % 256>> >>
    [] frameFormat = "SPI_24" ->
         LET cmdPayload == addr % 16384
             dataPayload == v % 16384
         IN  << <<(addr \div 256) % 64, addr % 256, crc8[cmdPayload]>>,
                <<(dataPayload \div 256) % 256, dataPayload % 256, crc8[dataPayload]>> >>
    [] frameFormat = "SPI_32" ->
         LET cmdPayload == addr % 16384
             dataPayload == v % 16384
         IN  << <<padByte, (addr \div 256) % 64, addr % 256, crc8[cmdPayload]>>,
                <<padByte, (dataPayload \div 256) % 256, dataPayload % 256,
                  crc8[dataPayload]>> >>

\* CrcError | FramingError: retryMask of the getters, errMask of writeRegister
retryMask == CrcError + FramingError

\* the test writeRegister makes after its two frames (frames), given what
\* readReg<ERRFL>() did (rd): err is the value tested, swept what the ERRFL
\* read after it returned.  ok: success was set and the loop left; otherwise
\* err went to the sticky store
writeCheck(frames, rd) ==
  [tx |-> frames \o rd.tx,
   err |-> rd.val,
   swept |-> rd.err,
   ok |-> BitAnd(rd.val, retryMask) = 0,
   sticky |-> IF BitAnd(rd.val, retryMask) = 0
                THEN rd.sticky
                ELSE updateStickyErrors(rd.sticky, rd.val)]

\* one pass through the loop body of AS5047U::writeRegister
writeAttempt(sticky, addr, v, rx) ==
  writeCheck(writeFrames(addr, v), readRegister(sticky, ERRFL_ADDRESS, rx))

(***************************************************************************)
(* High-level getters.  A retry loop is named after its function; the two  *)
(* loops of getZeroPosition are getZeroPosition_m and getZeroPosition_l.   *)
(***************************************************************************)
GetterLoops ==
  {"getAngle", "getRawAngle", "getVelocity", "getAGC", "getMagnitude",
   "getZeroPosition_m", "getZeroPosition_l"}

\* the getters a caller can call
Getters ==
  {"getAngle", "getRawAngle", "getVelocity", "getAGC", "getMagnitude",
   "getZeroPosition"}

\* the register a getter loop reads
Target(loop) ==
  CASE loop = "getAngle" -> ANGLECOM_ADDRESS
    [] loop = "getRawAngle" -> ANGLEUNC_ADDRESS
    [] loop = "getVelocity" -> VEL_ADDRESS
    [] loop = "getAGC" -> AGC_ADDRESS
    [] loop = "getMagnitude" -> MAG_ADDRESS
    [] loop = "getZeroPosition_m" -> ZPOSM_ADDRESS
    [] loop = "getZeroPosition_l" -> ZPOSL_ADDRESS

\* the 14-bit field taken as unsigned
zeroExtend14(v) == v
\* static_cast<int16_t>((static_cast<int16_t>(v << 2)) >> 2)
signExtend14(v) ==
  LET w == (v * 4) % 65536
      s == IF w >= 32768 THEN w - 65536 ELSE w
  IN  s \div 4

\* the bit-field a getter loop takes from the register value it read
Field(loop, raw) ==
  CASE loop \in {"getAngle", "getRawAngle", "getMagnitude"} -> raw % 16384
    [] loop = "getVelocity" -> signExtend14(raw % 16384)
    [] loop \in {"getAGC", "getZeroPosition_m"} -> raw % 256
    [] loop = "getZeroPosition_l" -> raw % 64

\* a join of the two parts of the zero position at bit 8
joinZeroPositionAtByte(mm, l) == (mm * 256 + l) % 65536
\* getZeroPosition: static_cast<uint16_t>((m << 6) | l)
joinZeroPosition(mm, l) == (mm * 64 + l) % 65536

\* the function a loop belongs to
CallOf(loop) ==
  IF loop \in {"getZeroPosition_m", "getZeroPosition_l"} THEN "getZeroPosition"
  ELSE loop

\* retries arguments: the small ones, and those with the largest uint8_t
SmallRetries == 0 .. MaxSmallRetries
RetryValues == SmallRetries \cup {UINT8_MAX}
PadBytes == {0, 165}
\* registers read through readReg alone: getDiagnostics, getHysteresis
PlainReads == {DIA_ADDRESS, SETTINGS3_ADDRESS}
\* registers the caller writes through writeReg<RegT>, which takes any register
\* type: ZPOSM, and ANGLECOM, which the register catalog describes as read-only
WriteAddresses == {ZPOSM_ADDRESS, ANGLECOM_ADDRESS}

\* x & ~retryMask
withoutRetryBits(x) == x - BitAnd(x, retryMask)

(***************************************************************************)
(* programOTP.  otp holds its locals (backup, volatileShadow, ecc, p, a,   *)
(* result) and a record of the running or last call: the frame format and  *)
(* pad byte at entry, whether a 2-byte frame was sent, whether a write     *)
(* before the burn or any write reported failure, whether the shadow       *)
(* registers differed before the burn, the values written to PROG, the     *)
(* last value polled from PROG, whether a poll read 0x0001, and the values *)
(* the verification after the burn read.                                   *)
(***************************************************************************)
OtpIdle ==
  [backup |-> "none", volatileShadow |-> <<>>, ecc |-> 0, p |-> 0, a |-> 0,
   result |-> FALSE,
   entryFormat |-> "none", entryPad |-> 0, shortFrame |-> FALSE,
   preBurnFailed |-> FALSE, anyFailed |-> FALSE, preMismatch |-> FALSE,
   progWrites |-> <<>>, lastPoll |-> 0, pollHit |-> FALSE, timedOut |-> FALSE,
   reread |-> <<>>]

\* PROG bits: PROGEN bit 0, OTPREF bit 2, PROGOTP bit 3, PROGVER bit 6
PROGEN == 1
OTPREF == 4
PROGOTP == 8
PROGVER == 64

\* the steps of programOTP that are a writeReg
OtpWriteSteps ==
  {"otp_zposm", "otp_zposl", "otp_eccEn", "otp_eccChsum", "otp_progen",
   "otp_progotp", "otp_progver", "otp_otpref1", "otp_otpref0"}
\* those before the PROGOTP write
OtpPreBurnSteps == {"otp_zposm", "otp_zposl", "otp_eccEn", "otp_eccChsum", "otp_progen"}
\* the loops over a = 0x0016 .. 0x001A
OtpShadowLoops == {"otp_snapshot", "otp_verifyShadow", "otp_verifyOtp"}
OtpSteps ==
  OtpWriteSteps \cup OtpShadowLoops
    \cup {"otp_getAngle", "otp_readEcc", "otp_readChecksum", "otp_poll"}

\* the register a writeReg step of programOTP writes
OtpWriteAddress(step) ==
  CASE step = "otp_zposm" -> ZPOSM_ADDRESS
    [] step = "otp_zposl" -> ZPOSL_ADDRESS
    [] step \in {"otp_eccEn", "otp_eccChsum"} -> ECC_ADDRESS
    [] OTHER -> PROG_ADDRESS

\* the value it writes: angleLSB is the angle getAngle() returned, e the local
\* ecc, pp the local p before the step sets its bit
OtpWriteValue(step, angleLSB, e, pp) ==
  CASE step = "otp_zposm" -> (angleLSB \div 64) % 256
    [] step = "otp_zposl" -> angleLSB % 64
    [] step \in {"otp_eccEn", "otp_eccChsum"} -> e
    [] step = "otp_progen" -> BitOr(pp, PROGEN)
    [] step = "otp_progotp" -> BitOr(pp, PROGOTP)
    [] step = "otp_progver" -> BitOr(pp, PROGVER)
    [] step = "otp_otpref1" -> BitOr(pp, OTPREF)
    [] step = "otp_otpref0" -> pp - BitAnd(pp, OTPREF)

\* an order of steps in which the shadow registers are compared with the
\* snapshot after the PROGEN write instead of before it
OtpAfterWriteVerifyLate(step, ok) ==
  CASE step = "otp_zposm" -> IF ok THEN "otp_zposl" ELSE "otp_snapshot"
    [] step = "otp_zposl" -> "otp_snapshot"
    [] step = "otp_eccEn" -> "otp_readChecksum"
    [] step = "otp_eccChsum" -> "otp_progen"
    [] step = "otp_progen" -> "otp_verifyShadow"
    [] step = "otp_progotp" -> "otp_poll"
    [] step = "otp_progver" -> "otp_otpref1"
    [] step = "otp_otpref1" -> "otp_otpref0"
    [] step = "otp_otpref0" -> "otp_verifyOtp"

\* the step after a writeReg step; ok is what the write returned, which
\* matters to setZeroPosition's writeReg(m) && writeReg(l) alone
OtpAfterWrite(step, ok) ==
  CASE step = "otp_zposm" -> IF ok THEN "otp_zposl" ELSE "otp_snapshot"
    [] step = "otp_zposl" -> "otp_snapshot"
    [] step = "otp_eccEn" -> "otp_readChecksum"
    [] step = "otp_eccChsum" -> "otp_verifyShadow"
    [] step = "otp_progen" -> "otp_progotp"
    [] step = "otp_progotp" -> "otp_poll"
    [] step = "otp_progver" -> "otp_otpref1"
    [] step = "otp_otpref1" -> "otp_otpref0"
    [] step = "otp_otpref0" -> "otp_verifyOtp"

\* the loop variable a when step is entered
OtpLoopStart(step) == IF step \in OtpShadowLoops THEN ShadowFirst ELSE 0

\* what the device answers to one readRegister of programOTP: frame B of the
\* read, frame B of the ERRFL read after it
OtpReadAnswers(words) == {<<RxGood(frameFormat, w), RxGood(frameFormat, 0)>> : w \in words}
\* what it answers to the readReg<ERRFL>() of a write
OtpWriteAnswers ==
  {<<RxGood(frameFormat, e), RxGood(frameFormat, 0)>> : e \in {0, CrcError}}

\* a return that leaves the frame format as it is
keepFormat(backup, current) == current
\* frameFormat = backup
restoreFormat(backup, current) == backup

\* a comparison that never finds a difference
shadowNeverDiffers(read, snapshot) == FALSE
\* readRegister(a) != volatileShadow[a - 0x0016]
shadowDiffers(read, snapshot) == read # snapshot

\* a test of the PROGEN bit alone
pollDoneOnProgen(v) == v % 2 = 1
\* readRegister(PROG::ADDRESS) == 0x0001
pollDone(v) == v = 1

\* a frame of two bytes is among frames
HasShortFrame(frames) == \E k \in 1 .. Len(frames) : Len(frames[k]) = 2

(***************************************************************************)
(* The setters setZeroPosition, setABIResolution and configureInterface.   *)
(* Each is a list of register accesses: the readReg<R>() calls that fill   *)
(* its locals, then its writeReg(r, retries) calls joined by &&.           *)
(***************************************************************************)
DISABLE_ADDRESS == 21
SETTINGS2_ADDRESS == 25

\* no setter has been called
SetterIdle == [name |-> "none", arg |-> <<>>, step |-> 0, reads |-> <<>>, writes |-> <<>>]

\* the setters that assign one bit field of one register
SingleFieldSetters ==
  {"setDirection", "setDynamicAngleCompensation", "set150CTemperatureMode",
   "setAngleOutputSource", "setIndexPulseLength", "setHysteresis", "setABIResolution",
   "setUVWPolePairs", "setAdaptiveFilter"}

Setters == {"setZeroPosition", "configureInterface"} \cup SingleFieldSetters

\* the field a single-field setter assigns: its register, its lowest bit, its width
SetterField(name) ==
  CASE name = "setIndexPulseLength" -> [reg |-> SETTINGS2_ADDRESS, lo |-> 0, width |-> 1]
    [] name = "set150CTemperatureMode" -> [reg |-> SETTINGS2_ADDRESS, lo |-> 1, width |-> 1]
    [] name = "setDirection" -> [reg |-> SETTINGS2_ADDRESS, lo |-> 2, width |-> 1]
    [] name = "setDynamicAngleCompensation" -> [reg |-> SETTINGS2_ADDRESS, lo |-> 4, width |-> 1]
    [] name = "setAngleOutputSource" -> [reg |-> SETTINGS2_ADDRESS, lo |-> 6, width |-> 1]
    [] name = "setUVWPolePairs" -> [reg |-> SETTINGS3_ADDRESS, lo |-> 0, width |-> 3]
    [] name = "setHysteresis" -> [reg |-> SETTINGS3_ADDRESS, lo |-> 3, width |-> 2]
    [] name = "setABIResolution" -> [reg |-> SETTINGS3_ADDRESS, lo |-> 5, width |-> 3]
    [] name = "setAdaptiveFilter" -> [reg |-> DISABLE_ADDRESS, lo |-> 6, width |-> 1]

\* the arguments a setter is called with
SetterArgs(name) ==
  CASE name = "setZeroPosition" -> [angleLSB : {4660, 16383, 65535}]
    [] name = "setABIResolution" -> [resolutionBits : {0, 9, 10, 11, 12, 13, 14, 15, 255}]
    [] name = "configureInterface" -> [abi : BOOLEAN, uvw : BOOLEAN, pwm : BOOLEAN]
    [] name = "setDirection" -> [clockwise : BOOLEAN]
    [] name \in {"setDynamicAngleCompensation", "set150CTemperatureMode",
                 "setAdaptiveFilter"} -> [enable : BOOLEAN]
    [] name = "setAngleOutputSource" -> [src : {0, 1}]
    [] name = "setIndexPulseLength" -> [lsbLen : {0, 1, 3}]
    [] name = "setHysteresis" -> [hys : {0, 3}]
    [] name = "setUVWPolePairs" -> [pairs : {0, 4, 255}]

\* the register accesses of a setter, in order
SetterProgram(name) ==
  CASE name = "setZeroPosition" ->
         << [op |-> "write", reg |-> ZPOSM_ADDRESS], [op |-> "write", reg |-> ZPOSL_ADDRESS] >>
    [] name \in SingleFieldSetters ->
         << [op |-> "read", reg |-> SetterField(name).reg],
            [op |-> "write", reg |-> SetterField(name).reg] >>
    [] name = "configureInterface" ->
         << [op |-> "read", reg |-> DISABLE_ADDRESS], [op |-> "read", reg |-> SETTINGS2_ADDRESS],
            [op |-> "write", reg |-> DISABLE_ADDRESS],
            [op |-> "write", reg |-> SETTINGS2_ADDRESS] >>

\* std::clamp without a lower bound
clampFromAbove(x, lo, hi) == IF x > hi THEN hi ELSE x
\* std::clamp
clamp(x, lo, hi) == IF x < lo THEN lo ELSE IF x > hi THEN hi ELSE x

\* an assignment of the whole register in place of one of its fields
withFieldAlone(v, lo, width, f) == (f % (2 ^ width)) * (2 ^ lo)

\* reg.bits.F = f, F being the width bits of the register value v from bit lo up
withField(v, lo, width, f) ==
  v - ((v \div (2 ^ lo)) % (2 ^ width)) * (2 ^ lo) + (f % (2 ^ width)) * (2 ^ lo)

\* a split of the zero position at bit 8
splitZeroPositionAtByte(angleLSB) ==
  [m |-> (angleLSB \div 256) % 256, l |-> angleLSB % 64]
\* setZeroPosition: m.bits.ZPOSM_bits and l.bits.ZPOSL_bits
splitZeroPosition(angleLSB) ==
  [m |-> (angleLSB \div 64) % 256, l |-> angleLSB % 64]

\* interface bits with UVW_ABI following uvw alone
interfaceBitsUvwOnly(abi, uvw, pwm) ==
  [ABI_off |-> IF abi THEN 0 ELSE 1,
   UVW_off |-> IF uvw THEN 0 ELSE 1,
   UVW_ABI |-> IF uvw THEN 1 ELSE 0,
   PWMon |-> IF pwm THEN 1 ELSE 0]
\* configureInterface: the four bits it assigns
interfaceBits(abi, uvw, pwm) ==
  [ABI_off |-> IF abi THEN 0 ELSE 1,
   UVW_off |-> IF uvw THEN 0 ELSE 1,
   UVW_ABI |-> IF abi /\ ~uvw THEN 0 ELSE IF ~abi /\ uvw THEN 1 ELSE 0,
   PWMon |-> IF pwm THEN 1 ELSE 0]

\* the value a single-field setter assigns to its field
SetterFieldValue(name, arg) ==
  CASE name = "setIndexPulseLength" -> IF arg.lsbLen = 1 THEN 1 ELSE 0
    [] name = "set150CTemperatureMode" -> IF arg.enable THEN 1 ELSE 0
    [] name = "setDirection" -> IF arg.clockwise THEN 0 ELSE 1
    [] name = "setDynamicAngleCompensation" -> IF arg.enable THEN 0 ELSE 1
    [] name = "setAngleOutputSource" -> arg.src
    [] name = "setUVWPolePairs" -> clamp(arg.pairs, 1, 7) - 1
    [] name = "setHysteresis" -> arg.hys
    [] name = "setABIResolution" -> clamp(arg.resolutionBits, 10, 14) - 10
    [] name = "setAdaptiveFilter" -> IF arg.enable THEN 0 ELSE 1

\* the value a setter hands to writeReg for register reg, reads being what its
\* readReg calls returned, in order
SetterWriteValue(name, arg, reads, reg) ==
  CASE name = "setZeroPosition" ->
         IF reg = ZPOSM_ADDRESS THEN splitZeroPosition(arg.angleLSB).m
                                ELSE splitZeroPosition(arg.angleLSB).l
    [] name \in SingleFieldSetters ->
         withField(reads[1], SetterField(name).lo, SetterField(name).width,
                   SetterFieldValue(name, arg))
    [] name = "configureInterface" ->
         LET b == interfaceBits(arg.abi, arg.uvw, arg.pwm)
         IN  IF reg = DISABLE_ADDRESS
               THEN withField(withField(reads[1], 1, 1, b.ABI_off), 0, 1, b.UVW_off)
               ELSE withField(withField(reads[2], 3, 1, b.UVW_ABI), 7, 1, b.PWMon)

(***************************************************************************)
(* updateStickyErrors running on one thread while another thread calls     *)
(* getStickyErrorFlags: stickyErrors is a std::atomic<uint16_t>, each      *)
(* "stickyErrors |= bit" is one atomic read-modify-write, and so is        *)
(* exchange(0).                                                            *)
(***************************************************************************)
\* no thread is inside updateStickyErrors.  errfl: the argument; k: the next
\* "if" statement (an index of StickyBitOrder), 0 before a call; before: the
\* store when the call began; taken: union of what drains returned since then;
\* mid: the latest step was a drain made between two statements of the call;
\* owed: bits set by a statement and not returned by a drain since; twice: a
\* drain has returned a bit that was not owed
UpdIdle ==
  [errfl |-> 0, k |-> 0, before |-> 0, taken |-> 0, mid |-> FALSE, owed |-> 0,
   twice |-> FALSE]

\* no pair of runs has been made.  rxA, top: for each run, what the adapter
\* returned during frame A and the two bits above the 14-bit data in the words
\* of frame B; val, sticky: what each run returned and left in the store
PairIdle ==
  [done |-> FALSE, rxA |-> <<>>, top |-> <<>>, val |-> <<0, 0>>, sticky |-> <<0, 0>>]

\* a sensor whose ZPOSM and ZPOSL hold what was last written to them; arg is
\* the argument of the setZeroPosition call that wrote them
DevIdle == [zposm |-> 0, zposl |-> 0, arg |-> 0, set |-> FALSE]

\* the arguments setZeroPosition is called with against that sensor
ZeroValues == {0, 63, 64, 4660, 16383, 16384, 53812, 65535}

\* the ERRFL snapshots updateStickyErrors is called with
Snapshots == {65, 1600, 65535}

(***************************************************************************)
(* Initial states: after the constructor, on a free bus (Init) or on an    *)
(* adapter programmed with a script (InitScript).                          *)
(***************************************************************************)
Constructed ==
  /\ padByte = 0
  /\ stickyErrors = 0
  /\ pc = "idle"
  /\ retries = 0
  /\ i = 0
  /\ val = 0
  /\ m = 0
  /\ address = 0
  /\ value = 0
  /\ ret = 0
  /\ success = FALSE
  /\ lastCall = "none"
  /\ drains = 0
  /\ firstDrain = 0
  /\ txLog = <<>>
  /\ crcBad = FALSE
  /\ attempts = 0
  /\ lastErr = 0
  /\ rawErrfl = 0
  /\ seenRetry = 0
  /\ seenOther = 0
  /\ cleanAt = 0
  /\ otp = OtpIdle
  /\ setter = SetterIdle
  /\ rawRead = 0
  /\ upd = UpdIdle
  /\ dev = DevIdle
  /\ pair = PairIdle

Init ==
  /\ frameFormat \in FrameFormats
  /\ Constructed
  /\ script = "free"
  /\ scriptK = 0
  /\ faultsLeft = 0

ScriptFaults == (0 .. MaxFaults) \cup {UINT8_MAX + 1}

InitScript ==
  /\ frameFormat \in FrameFormats
  /\ Constructed
  /\ script \in ScriptKinds
  /\ script = "crcFault" => frameFormat # "SPI_16"
  /\ scriptK \in ScriptFaults
  /\ faultsLeft = scriptK

\* the records of the last call's attempts are dropped
ClearAttemptRecords ==
  /\ txLog' = <<>>
  /\ crcBad' = FALSE
  /\ attempts' = 0
  /\ lastErr' = 0
  /\ seenRetry' = 0
  /\ cleanAt' = 0
  /\ setter' = SetterIdle
  /\ rawRead' = 0
  /\ upd' = UpdIdle
  /\ pair' = PairIdle
  /\ UNCHANGED dev

\* a call that does not go through writeRegister or a retry loop has returned
PlainReturn(name) ==
  /\ lastCall' = name
  /\ retries' = 0
  /\ success' = FALSE
  /\ value' = 0

(***************************************************************************)
(* Calls that are one step.                                                *)
(***************************************************************************)
\* AS5047U::setFrameFormat
SetFrameFormat ==
  /\ pc = "idle"
  /\ \E f \in FrameFormats : frameFormat' = f
  /\ PlainReturn("setFrameFormat")
  /\ ClearAttemptRecords
  /\ seenOther' = 0
  /\ ret' = 0
  /\ address' = 0
  /\ UNCHANGED <<otp, padByte, stickyErrors, pc, i, val, m, drains, firstDrain, rawErrfl, script,
                 scriptK, faultsLeft>>

\* AS5047U::setPad
SetPad ==
  /\ pc = "idle"
  /\ \E p \in PadBytes : padByte' = p
  /\ PlainReturn("setPad")
  /\ ClearAttemptRecords
  /\ seenOther' = 0
  /\ ret' = 0
  /\ address' = 0
  /\ UNCHANGED <<otp, frameFormat, stickyErrors, pc, i, val, m, drains, firstDrain, rawErrfl,
                 script, scriptK, faultsLeft>>

\* AS5047U::getStickyErrorFlags called by the user of the driver
GetStickyErrorFlags ==
  /\ pc = "idle"
  /\ \E d \in {getStickyErrorFlags(stickyErrors)} :
         /\ ret' = d.ret
         /\ stickyErrors' = d.sticky
  /\ PlainReturn("getStickyErrorFlags")
  /\ ClearAttemptRecords
  /\ seenOther' = 0
  /\ drains' = (IF drains < 2 THEN drains + 1 ELSE 2)
  /\ firstDrain' = (IF drains = 0 THEN stickyErrors ELSE firstDrain)
  /\ rawErrfl' = 0
  /\ address' = 0
  /\ UNCHANGED <<otp, frameFormat, padByte, pc, i, val, m, script, scriptK, faultsLeft>>

\* AS5047U::readReg<RegT>() as getDiagnostics and getHysteresis call it: one
\* readRegister, no drain
ReadReg ==
  /\ pc = "idle"
  /\ \E a \in PlainReads : \E rx \in BusAnswers(a) :
       \E rd \in {readRegister(stickyErrors, a, rx)} :
           /\ stickyErrors' = rd.sticky
           /\ ret' = rd.val
           /\ txLog' = rd.tx
           /\ rawRead' = rd.val
           /\ crcBad' = rd.crcMismatch
           /\ lastErr' = rd.err
           /\ rawErrfl' = BitOr(rawErrfl, rd.err)
           /\ address' = a
  /\ PlainReturn("readReg")
  /\ attempts' = 1
  /\ drains' = 0
  /\ firstDrain' = 0
  /\ seenRetry' = 0
  /\ seenOther' = 0
  /\ cleanAt' = 0
  /\ ScriptStep
  /\ UNCHANGED <<otp, frameFormat, padByte, pc, i, val, m, script, scriptK,
                 setter, upd, dev, pair>>

(***************************************************************************)
(* The retrying getters: getAngle, getRawAngle, getVelocity, getAGC,       *)
(* getMagnitude, getZeroPosition.                                          *)
(*   for (uint8_t i = 0; i <= retries; ++i) {                              *)
(*     val = readReg<R>().bits.F;                                          *)
(*     auto err = getStickyErrorFlags();                                   *)
(*     if (!(err & retryMask)) break;                                      *)
(*   }                                                                     *)
(***************************************************************************)
\* a scripted adapter is programmed for one call
ScriptFresh == faultsLeft = scriptK

\* entry of a getter with retries in R: its locals and the loop counter are
\* initialised
GetterCallOf(R) ==
  /\ pc = "idle"
  /\ ScriptFresh
  /\ \E g \in Getters, r \in R :
       /\ pc' = (IF g = "getZeroPosition" THEN "getZeroPosition_m" ELSE g)
       /\ retries' = r
  /\ i' = 0
  /\ val' = 0
  /\ m' = 0
  /\ ClearAttemptRecords
  /\ seenOther' = withoutRetryBits(stickyErrors)
  /\ lastCall' = "none"
  /\ ret' = 0
  /\ success' = FALSE
  /\ address' = 0
  /\ value' = 0
  /\ drains' = 0
  /\ firstDrain' = 0
  /\ UNCHANGED <<otp, frameFormat, padByte, stickyErrors, rawErrfl, script, scriptK,
                 faultsLeft>>

GetterCall == GetterCallOf(SmallRetries)
GetterCallAny == GetterCallOf(RetryValues)

\* a getter loop is left (by break or because i <= retries is false): the
\* first loop of getZeroPosition goes on to the second, every other returns.
\* v is the loop's local, mm is getZeroPosition's m
GetterLeave(v, mm) ==
  IF pc = "getZeroPosition_m"
    THEN /\ pc' = "getZeroPosition_l"
         /\ i' = 0
         /\ m' = mm
         /\ val' = 0
         /\ UNCHANGED <<ret, lastCall>>
    ELSE /\ pc' = "idle"
         /\ ret' = (IF pc = "getZeroPosition_l" THEN joinZeroPosition(mm, v) ELSE v)
         /\ lastCall' = CallOf(pc)
         /\ i' = 0
         /\ m' = 0
         /\ val' = 0

\* one pass through the body of a getter loop, with the answers rx
GetterBody(rx) ==
  \E rd \in {readRegister(stickyErrors, Target(pc), rx)} :
  \E f \in {Field(pc, rd.val)}, d \in {getStickyErrorFlags(rd.sticky)} :
  \E brk \in {BitAnd(d.ret, retryMask) = 0} :
      /\ stickyErrors' = d.sticky
      /\ txLog' = rd.tx
      /\ rawRead' = rd.val
      /\ crcBad' = rd.crcMismatch
      /\ address' = Target(pc)
      /\ lastErr' = d.ret
      /\ rawErrfl' = 0
      /\ seenRetry' = BitOr(seenRetry, BitAnd(rd.err, retryMask))
      /\ seenOther' = BitOr(seenOther, withoutRetryBits(rd.err))
      /\ IF brk
           THEN /\ GetterLeave(f, IF pc = "getZeroPosition_m" THEN f ELSE m)
                /\ attempts' = (IF pc = "getZeroPosition_m" THEN 0 ELSE attempts + 1)
           ELSE /\ i' = (i + 1) % (UINT8_MAX + 1)
                /\ (IF pc = "getZeroPosition_m"
                       THEN m' = f /\ val' = val
                       ELSE val' = f /\ m' = m)
                /\ attempts' = attempts + 1
                /\ UNCHANGED <<pc, ret, lastCall>>
      /\ ScriptStep
      /\ UNCHANGED <<otp, frameFormat, padByte, retries, value, success, drains, firstDrain,
                     cleanAt, script, scriptK,
                 setter, upd, dev, pair>>

GetterAttempt ==
  /\ pc \in GetterLoops
  /\ i <= retries
  /\ \E rx \in BusAnswers(Target(pc)) : GetterBody(rx)

\* the loop condition i <= retries is false
GetterLoopEnd ==
  /\ pc \in GetterLoops
  /\ ~(i <= retries)
  /\ GetterLeave(IF pc = "getZeroPosition_m" THEN 0 ELSE val, m)
  /\ attempts' = (IF pc = "getZeroPosition_m" THEN 0 ELSE attempts)
  /\ UNCHANGED <<otp, frameFormat, padByte, stickyErrors, retries, address, value,
                 success, drains, firstDrain, txLog, crcBad, lastErr, rawErrfl, seenRetry,
                 seenOther, cleanAt, script, scriptK, faultsLeft,
                 setter, rawRead, upd, dev, pair>>

(***************************************************************************)
(* AS5047U::getErrorFlags                                                  *)
(*   for (uint8_t i = 0; i <= retries; ++i) {                              *)
(*     val = readReg<ERRFL>().value;                                       *)
(*     if (val == 0) break;                                                *)
(*   }                                                                     *)
(***************************************************************************)
GetErrorFlagsCallOf(R) ==
  /\ pc = "idle"
  /\ ScriptFresh
  /\ pc' = "getErrorFlags"
  /\ \E r \in R : retries' = r
  /\ i' = 0
  /\ val' = 0
  /\ ClearAttemptRecords
  /\ seenOther' = 0
  /\ lastCall' = "none"
  /\ ret' = 0
  /\ success' = FALSE
  /\ address' = 0
  /\ value' = 0
  /\ drains' = 0
  /\ firstDrain' = 0
  /\ UNCHANGED <<otp, frameFormat, padByte, stickyErrors, m, rawErrfl, script,
                 scriptK, faultsLeft>>

GetErrorFlagsCall == GetErrorFlagsCallOf(SmallRetries)
GetErrorFlagsCallAny == GetErrorFlagsCallOf(RetryValues)

GetErrorFlagsBody(rx) ==
  \E rd \in {readRegister(stickyErrors, ERRFL_ADDRESS, rx)} :
      /\ stickyErrors' = rd.sticky
      /\ txLog' = rd.tx
      /\ rawRead' = rd.val
      /\ crcBad' = rd.crcMismatch
      /\ address' = ERRFL_ADDRESS
      /\ lastErr' = rd.val
      /\ rawErrfl' = BitOr(BitOr(rawErrfl, rd.val), rd.err)
      /\ attempts' = attempts + 1
      /\ IF rd.val = 0
           THEN /\ pc' = "idle"
                /\ ret' = rd.val
                /\ lastCall' = "getErrorFlags"
                /\ i' = 0
                /\ val' = 0
           ELSE /\ i' = (i + 1) % (UINT8_MAX + 1)
                /\ val' = rd.val
                /\ UNCHANGED <<pc, ret, lastCall>>
      /\ ScriptStep
      /\ UNCHANGED <<otp, frameFormat, padByte, retries, m, value, success, drains, firstDrain,
                     seenRetry, seenOther, cleanAt, script, scriptK,
                 setter, upd, dev, pair>>

GetErrorFlagsAttempt ==
  /\ pc = "getErrorFlags"
  /\ i <= retries
  /\ \E rx \in BusAnswers(ERRFL_ADDRESS) : GetErrorFlagsBody(rx)

GetErrorFlagsLoopEnd ==
  /\ pc = "getErrorFlags"
  /\ ~(i <= retries)
  /\ pc' = "idle"
  /\ ret' = val
  /\ lastCall' = "getErrorFlags"
  /\ i' = 0
  /\ val' = 0
  /\ UNCHANGED <<otp, frameFormat, padByte, stickyErrors, retries, m, address, value,
                 success, drains, firstDrain, txLog, crcBad, attempts, lastErr, rawErrfl,
                 seenRetry, seenOther, cleanAt, script, scriptK, faultsLeft,
                 setter, rawRead, upd, dev, pair>>

(***************************************************************************)
(* AS5047U::writeRegister, reached through writeReg                        *)
(*   for (uint8_t attempt = 0; attempt <= retries; ++attempt) {            *)
(*     transfer(address frame); transfer(data frame);                      *)
(*     auto err = readReg<ERRFL>().value;                                  *)
(*     if (!(err & errMask)) { success = true; break; }                    *)
(*     updateStickyErrors(err);                                            *)
(*   }                                                                     *)
(*   return success;                                                       *)
(***************************************************************************)
WriteCallOf(R) ==
  /\ pc = "idle"
  /\ ScriptFresh
  /\ pc' = "writeRegister"
  /\ \E a \in WriteAddresses, v \in WriteValues, r \in R :
       /\ address' = a
       /\ value' = v
       /\ retries' = r
  /\ i' = 0
  /\ success' = FALSE
  /\ ClearAttemptRecords
  /\ seenOther' = 0
  /\ lastCall' = "none"
  /\ ret' = 0
  /\ drains' = 0
  /\ firstDrain' = 0
  /\ UNCHANGED <<otp, frameFormat, padByte, stickyErrors, val, m, rawErrfl, script,
                 scriptK, faultsLeft>>

WriteCall == WriteCallOf(SmallRetries)
WriteCallAny == WriteCallOf(RetryValues)

WriteBody(rx) ==
  \E w \in {writeAttempt(stickyErrors, address, value, rx)} :
      /\ stickyErrors' = w.sticky
      /\ txLog' = w.tx
      /\ lastErr' = w.err
      /\ rawErrfl' = BitOr(BitOr(rawErrfl, w.err), w.swept)
      /\ attempts' = attempts + 1
      /\ cleanAt' = (IF cleanAt = 0 /\ BitAnd(w.err, retryMask) = 0
                       THEN attempts + 1 ELSE cleanAt)
      /\ IF w.ok
           THEN /\ success' = TRUE
                /\ pc' = "idle"
                /\ lastCall' = "writeRegister"
                /\ i' = 0
           ELSE /\ i' = (i + 1) % (UINT8_MAX + 1)
                /\ UNCHANGED <<success, pc, lastCall>>
      /\ ScriptStep
      /\ UNCHANGED <<otp, frameFormat, padByte, retries, val, m, address, value, ret,
                     drains, firstDrain, crcBad, seenRetry, seenOther, script, scriptK,
                 setter, rawRead, upd, dev, pair>>

WriteAttempt ==
  /\ pc = "writeRegister"
  /\ i <= retries
  /\ \E rx \in BusAnswers(ERRFL_ADDRESS) : WriteBody(rx)

WriteLoopEnd ==
  /\ pc = "writeRegister"
  /\ ~(i <= retries)
  /\ pc' = "idle"
  /\ lastCall' = "writeRegister"
  /\ i' = 0
  /\ UNCHANGED <<otp, frameFormat, padByte, stickyErrors, retries, val, m, address,
                 value, ret, success, drains, firstDrain, txLog, crcBad, attempts, lastErr,
                 rawErrfl, seenRetry, seenOther, cleanAt, script, scriptK,
                 faultsLeft,
                 setter, rawRead, upd, dev, pair>>

(***************************************************************************)
(* AS5047U::programOTP.  Its getAngle() and writeReg() calls take the      *)
(* default retries argument CRC_RETRIES = 0, so each is one pass through   *)
(* its loop body; every step below is one such call or one readRegister.   *)
(***************************************************************************)
\* the records the retrying calls keep are not kept by programOTP's steps
OtpStepRecords(tx) ==
  /\ txLog' = tx
  /\ crcBad' = FALSE
  /\ attempts' = 0
  /\ seenRetry' = 0
  /\ seenOther' = 0
  /\ cleanAt' = 0
  /\ drains' = 0
  /\ firstDrain' = 0
  /\ ret' = 0
  /\ m' = 0
  /\ retries' = CRC_RETRIES
  /\ setter' = SetterIdle
  /\ upd' = UpdIdle
  /\ pair' = PairIdle
  /\ UNCHANGED dev

\* entry: backup = frameFormat; SPI_16 is replaced by SPI_24
ProgramOTPCall ==
  /\ pc = "idle"
  /\ pc' = "otp_getAngle"
  /\ frameFormat' = (IF frameFormat = "SPI_16" THEN "SPI_24" ELSE frameFormat)
  /\ otp' = [OtpIdle EXCEPT !.backup = frameFormat, !.entryFormat = frameFormat,
                            !.entryPad = padByte]
  /\ OtpStepRecords(<<>>)
  /\ rawRead' = 0
  /\ lastErr' = 0
  /\ address' = 0
  /\ value' = 0
  /\ success' = FALSE
  /\ i' = 0
  /\ val' = 0
  /\ lastCall' = "none"
  /\ UNCHANGED <<padByte, stickyErrors, rawErrfl, script, scriptK, faultsLeft>>

\* programOTP returns result
OtpReturn(result, o) ==
  /\ pc' = "idle"
  /\ lastCall' = "programOTP"
  /\ otp' = [o EXCEPT !.result = result, !.a = 0]
  /\ i' = 0
  /\ val' = 0

\* setZeroPosition(getAngle()): the getAngle() call
OtpGetAngle ==
  /\ pc = "otp_getAngle"
  /\ \E rx \in OtpReadAnswers(DataWords) :
     \E rd \in {readRegister(stickyErrors, ANGLECOM_ADDRESS, rx)} :
     \E d \in {getStickyErrorFlags(rd.sticky)} :
         /\ val' = Field("getAngle", rd.val)
         /\ stickyErrors' = d.sticky
         /\ lastErr' = d.ret
         /\ rawErrfl' = 0
         /\ address' = ANGLECOM_ADDRESS
         /\ otp' = [otp EXCEPT !.shortFrame = @ \/ HasShortFrame(rd.tx)]
         /\ OtpStepRecords(rd.tx)
         /\ rawRead' = rd.val
  /\ pc' = "otp_zposm"
  /\ lastCall' = "none"
  /\ UNCHANGED <<frameFormat, padByte, i, value, success, script, scriptK, faultsLeft>>

\* one writeReg of programOTP; what it returns is used by setZeroPosition's &&
\* and by nothing else
OtpWrite ==
  /\ pc \in OtpWriteSteps
  /\ \E rx \in OtpWriteAnswers :
     \E a \in {OtpWriteAddress(pc)}, v \in {OtpWriteValue(pc, val, otp.ecc, otp.p)} :
     \E w \in {writeAttempt(stickyErrors, a, v, rx)} :
     \E next \in {OtpAfterWrite(pc, w.ok)} :
         /\ stickyErrors' = w.sticky
         /\ lastErr' = w.err
         /\ rawErrfl' = BitOr(BitOr(rawErrfl, w.err), w.swept)
         /\ address' = a
         /\ value' = v
         /\ success' = w.ok
         /\ pc' = next
         /\ val' = (IF next \in {"otp_zposm", "otp_zposl"} THEN val ELSE 0)
         /\ otp' = [otp EXCEPT
                      !.p = IF a = PROG_ADDRESS THEN v ELSE @,
                      !.a = OtpLoopStart(next),
                      !.shortFrame = @ \/ HasShortFrame(w.tx),
                      !.preBurnFailed = @ \/ (~w.ok /\ pc \in OtpPreBurnSteps),
                      !.anyFailed = @ \/ ~w.ok,
                      !.progWrites = IF a = PROG_ADDRESS THEN Append(@, v) ELSE @]
         /\ OtpStepRecords(w.tx)
         /\ rawRead' = 0
  /\ lastCall' = "none"
  /\ UNCHANGED <<frameFormat, padByte, i, script, scriptK, faultsLeft>>

\* one readRegister(a) of a programOTP step, rd being what it did
OtpRead(a, rd) ==
  /\ stickyErrors' = rd.sticky
  /\ lastErr' = rd.err
  /\ rawErrfl' = BitOr(rawErrfl, rd.err)
  /\ address' = a
  /\ rawRead' = rd.val
  /\ OtpStepRecords(rd.tx)

\* for (a = 0x0016; a <= 0x001A; ++a) volatileShadow[a - 0x0016] = readRegister(a)
OtpSnapshot ==
  /\ pc = "otp_snapshot"
  /\ \E rx \in OtpReadAnswers(ShadowWords) :
     \E rd \in {readRegister(stickyErrors, otp.a, rx)} :
         /\ OtpRead(otp.a, rd)
         /\ otp' = [otp EXCEPT
                      !.volatileShadow = Append(@, rd.val),
                      !.a = IF otp.a = ShadowLast THEN 0 ELSE otp.a + 1,
                      !.shortFrame = @ \/ HasShortFrame(rd.tx)]
  /\ pc' = (IF otp.a = ShadowLast THEN "otp_readEcc" ELSE pc)
  /\ lastCall' = "none"
  /\ UNCHANGED <<frameFormat, padByte, i, val, value, success, script, scriptK,
                 faultsLeft>>

\* auto ecc = readReg<ECC>(); ecc.bits.ECC_en = 1
OtpReadEcc ==
  /\ pc = "otp_readEcc"
  /\ \E rx \in OtpReadAnswers(EccWords) :
     \E rd \in {readRegister(stickyErrors, ECC_ADDRESS, rx)} :
         /\ OtpRead(ECC_ADDRESS, rd)
         /\ otp' = [otp EXCEPT !.ecc = withEccEn(rd.val),
                               !.shortFrame = @ \/ HasShortFrame(rd.tx)]
  /\ pc' = "otp_eccEn"
  /\ lastCall' = "none"
  /\ UNCHANGED <<frameFormat, padByte, i, val, value, success, script, scriptK,
                 faultsLeft>>

\* auto key = readReg<ECC_Checksum>().bits.ECC_s; ecc.bits.ECC_chsum = key
OtpReadChecksum ==
  /\ pc = "otp_readChecksum"
  /\ \E rx \in OtpReadAnswers(ChecksumWords) :
     \E rd \in {readRegister(stickyErrors, ECC_Checksum_ADDRESS, rx)} :
         /\ OtpRead(ECC_Checksum_ADDRESS, rd)
         /\ otp' = [otp EXCEPT !.ecc = withEccChsum(@, rd.val % 128),
                               !.shortFrame = @ \/ HasShortFrame(rd.tx)]
  /\ pc' = "otp_eccChsum"
  /\ lastCall' = "none"
  /\ UNCHANGED <<frameFormat, padByte, i, val, value, success, script, scriptK,
                 faultsLeft>>

\* for (a = 0x0016; a <= 0x001A; ++a)
\*   if (readRegister(a) != volatileShadow[a - 0x0016]) { frameFormat = backup; return false; }
OtpVerifyShadow ==
  /\ pc = "otp_verifyShadow"
  /\ \E rx \in OtpReadAnswers(DataWords) :
     \E rd \in {readRegister(stickyErrors, otp.a, rx)} :
     \E o \in {[otp EXCEPT !.shortFrame = @ \/ HasShortFrame(rd.tx)]} :
         /\ OtpRead(otp.a, rd)
         /\ IF shadowDiffers(rd.val, otp.volatileShadow[otp.a - ShadowFirst + 1])
              THEN /\ frameFormat' = restoreFormat(otp.backup, frameFormat)
                   /\ OtpReturn(FALSE, [o EXCEPT !.preMismatch = TRUE])
              ELSE /\ otp' = [o EXCEPT !.a = IF otp.a = ShadowLast THEN 0 ELSE otp.a + 1]
                   /\ pc' = (IF otp.a = ShadowLast THEN "otp_progen" ELSE pc)
                   /\ lastCall' = "none"
                   /\ UNCHANGED <<frameFormat, i, val>>
  /\ UNCHANGED <<padByte, value, success, script, scriptK, faultsLeft>>

\* for (uint16_t i = 0; i < 15000; ++i)
\*   if (readRegister(PROG::ADDRESS) == 0x0001) { frameFormat = backup; ... }
OtpPoll ==
  /\ pc = "otp_poll"
  /\ i < PROG_POLLS
  /\ \E rx \in OtpReadAnswers(ProgWords) :
     \E rd \in {readRegister(stickyErrors, PROG_ADDRESS, rx)} :
         /\ OtpRead(PROG_ADDRESS, rd)
         /\ IF pollDone(rd.val)
              THEN /\ frameFormat' = restoreFormat(otp.backup, frameFormat)
                   /\ pc' = "otp_progver"
                   /\ i' = 0
                   /\ otp' = [otp EXCEPT !.pollHit = TRUE, !.lastPoll = rd.val,
                                         !.shortFrame = @ \/ HasShortFrame(rd.tx)]
              ELSE /\ i' = i + 1
                   /\ otp' = [otp EXCEPT !.lastPoll = rd.val,
                                         !.shortFrame = @ \/ HasShortFrame(rd.tx)]
                   /\ UNCHANGED <<frameFormat, pc>>
  /\ lastCall' = "none"
  /\ UNCHANGED <<padByte, val, value, success, script, scriptK, faultsLeft>>

\* i < 15000 is false: frameFormat = backup; return false
OtpPollTimeout ==
  /\ pc = "otp_poll"
  /\ ~(i < PROG_POLLS)
  /\ frameFormat' = restoreFormat(otp.backup, frameFormat)
  /\ OtpReturn(FALSE, [otp EXCEPT !.timedOut = TRUE])
  /\ UNCHANGED <<padByte, stickyErrors, retries, m, address, value, ret, success, drains,
                 firstDrain, txLog, crcBad, attempts, lastErr, rawErrfl, seenRetry,
                 seenOther, cleanAt, script, scriptK, faultsLeft,
                 setter, rawRead, upd, dev, pair>>

\* after the PROGVER and OTPREF writes:
\* for (a = 0x0016; a <= 0x001A; ++a)
\*   if (readRegister(a) != volatileShadow[a - 0x0016]) { frameFormat = backup; return false; }
\* return true
OtpVerifyOtp ==
  /\ pc = "otp_verifyOtp"
  /\ \E rx \in OtpReadAnswers(DataWords) :
     \E rd \in {readRegister(stickyErrors, otp.a, rx)} :
     \E o \in {[otp EXCEPT !.shortFrame = @ \/ HasShortFrame(rd.tx),
                           !.reread = Append(@, rd.val)]} :
         /\ OtpRead(otp.a, rd)
         /\ IF shadowDiffers(rd.val, otp.volatileShadow[otp.a - ShadowFirst + 1])
              THEN /\ frameFormat' = restoreFormat(otp.backup, frameFormat)
                   /\ OtpReturn(FALSE, o)
              ELSE IF otp.a = ShadowLast
                THEN /\ OtpReturn(TRUE, o)
                     /\ UNCHANGED frameFormat
                ELSE /\ otp' = [o EXCEPT !.a = otp.a + 1]
                     /\ lastCall' = "none"
                     /\ UNCHANGED <<frameFormat, pc, i, val>>
  /\ UNCHANGED <<padByte, value, success, script, scriptK, faultsLeft>>

(***************************************************************************)
(* The setters, one register access per step.                              *)
(***************************************************************************)
\* entry of a setter
SetterCall ==
  /\ pc = "idle"
  /\ ScriptFresh
  /\ pc' = "setter"
  /\ \E n \in Setters : \E a \in SetterArgs(n) :
       setter' = [name |-> n, arg |-> a, step |-> 1, reads |-> <<>>, writes |-> <<>>]
  /\ \E r \in SmallRetries : retries' = r
  /\ i' = 0
  /\ val' = 0
  /\ m' = 0
  /\ txLog' = <<>>
  /\ crcBad' = FALSE
  /\ attempts' = 0
  /\ lastErr' = 0
  /\ seenRetry' = 0
  /\ seenOther' = 0
  /\ cleanAt' = 0
  /\ rawRead' = 0
  /\ lastCall' = "none"
  /\ ret' = 0
  /\ success' = FALSE
  /\ address' = 0
  /\ value' = 0
  /\ drains' = 0
  /\ firstDrain' = 0
  /\ UNCHANGED <<otp, frameFormat, padByte, stickyErrors, rawErrfl, script, scriptK,
                 faultsLeft, upd, dev, pair>>

\* auto r = readReg<R>(): one readRegister
SetterRead ==
  /\ pc = "setter"
  /\ SetterProgram(setter.name)[setter.step].op = "read"
  /\ \E a \in {SetterProgram(setter.name)[setter.step].reg} :
     \E rx \in BusAnswers(a) :
     \E rd \in {readRegister(stickyErrors, a, rx)} :
         /\ stickyErrors' = rd.sticky
         /\ txLog' = rd.tx
         /\ crcBad' = rd.crcMismatch
         /\ lastErr' = rd.err
         /\ rawErrfl' = BitOr(rawErrfl, rd.err)
         /\ address' = a
         /\ rawRead' = rd.val
         /\ setter' = [setter EXCEPT !.step = @ + 1, !.reads = Append(@, rd.val)]
  /\ ScriptStep
  /\ UNCHANGED <<otp, frameFormat, padByte, pc, retries, i, val, m, value, ret, success,
                 lastCall, drains, firstDrain, attempts, seenRetry, seenOther, cleanAt,
                 script, scriptK, upd, dev, pair>>

\* one pass through the loop of the writeRegister call the setter is in; when
\* the write succeeds the setter goes on to its next write, or returns true
\* after its last
SetterWrite ==
  /\ pc = "setter"
  /\ SetterProgram(setter.name)[setter.step].op = "write"
  /\ i <= retries
  /\ \E a \in {SetterProgram(setter.name)[setter.step].reg} :
     \E v \in {SetterWriteValue(setter.name, setter.arg, setter.reads, a)} :
     \E rx \in BusAnswers(ERRFL_ADDRESS) :
     \E w \in {writeAttempt(stickyErrors, a, v, rx)} :
         /\ stickyErrors' = w.sticky
         /\ txLog' = w.tx
         /\ lastErr' = w.err
         /\ rawErrfl' = BitOr(BitOr(rawErrfl, w.err), w.swept)
         /\ address' = a
         /\ value' = v
         /\ attempts' = (IF i = 0 THEN 1 ELSE attempts + 1)
         /\ IF w.ok
              THEN /\ i' = 0
                   /\ setter' = [setter EXCEPT
                                   !.step = @ + 1,
                                   !.writes = Append(@, [reg |-> a, value |-> v, ok |-> TRUE])]
                   /\ IF setter.step = Len(SetterProgram(setter.name))
                        THEN /\ pc' = "idle"
                             /\ lastCall' = setter.name
                             /\ success' = TRUE
                        ELSE UNCHANGED <<pc, lastCall, success>>
              ELSE /\ i' = (i + 1) % (UINT8_MAX + 1)
                   /\ UNCHANGED <<setter, pc, lastCall, success>>
  /\ ScriptStep
  /\ UNCHANGED <<otp, frameFormat, padByte, retries, val, m, ret, drains, firstDrain,
                 crcBad, seenRetry, seenOther, cleanAt, rawRead, script, scriptK, upd, dev, pair>>

\* a setter that goes on to its next write after a writeRegister call that
\* returned false
SetterWriteFailedGoesOn ==
  /\ pc = "setter"
  /\ SetterProgram(setter.name)[setter.step].op = "write"
  /\ ~(i <= retries)
  /\ i' = 0
  /\ setter' = [setter EXCEPT
                  !.step = @ + 1,
                  !.writes = Append(@, [reg |-> address, value |-> value, ok |-> FALSE])]
  /\ IF setter.step = Len(SetterProgram(setter.name))
       THEN /\ pc' = "idle"
            /\ lastCall' = setter.name
            /\ success' = FALSE
       ELSE UNCHANGED <<pc, lastCall, success>>
  /\ UNCHANGED <<otp, frameFormat, padByte, stickyErrors, retries, val, m, address, value,
                 ret, drains, firstDrain, txLog, crcBad, attempts, lastErr, rawErrfl,
                 seenRetry, seenOther, cleanAt, rawRead, script, scriptK, faultsLeft, upd, dev, pair>>

\* the writeRegister call the setter is in has used up its attempts and
\* returns false: so does the setter, without making its remaining writes
SetterWriteFailed ==
  /\ pc = "setter"
  /\ SetterProgram(setter.name)[setter.step].op = "write"
  /\ ~(i <= retries)
  /\ pc' = "idle"
  /\ lastCall' = setter.name
  /\ success' = FALSE
  /\ i' = 0
  /\ setter' = [setter EXCEPT
                  !.writes = Append(@, [reg |-> address, value |-> value, ok |-> FALSE])]
  /\ UNCHANGED <<otp, frameFormat, padByte, stickyErrors, retries, val, m, address, value,
                 ret, drains, firstDrain, txLog, crcBad, attempts, lastErr, rawErrfl,
                 seenRetry, seenOther, cleanAt, rawRead, script, scriptK, faultsLeft, upd, dev, pair>>

(***************************************************************************)
(* Two threads on the sticky store.                                        *)
(***************************************************************************)
\* a thread enters updateStickyErrors(errfl)
UpdateStickyCall ==
  /\ pc = "idle"
  /\ upd.k \in {0, Len(StickyBitOrder) + 1}
  /\ \E e \in Snapshots :
       upd' = [upd EXCEPT !.errfl = e, !.k = 1, !.before = stickyErrors, !.taken = 0,
                          !.mid = FALSE]
  /\ UNCHANGED <<frameFormat, padByte, stickyErrors, pc, retries, i, val, m, address,
                 value, ret, success, lastCall, drains, firstDrain, txLog, crcBad,
                 attempts, lastErr, rawErrfl, seenRetry, seenOther, cleanAt, script,
                 scriptK, faultsLeft, otp, setter, rawRead, dev, pair>>

\* it executes its next "if (errfl & (1u << n)) stickyErrors |= ..." statement
UpdateStickyStep ==
  /\ upd.k \in 1 .. Len(StickyBitOrder)
  /\ \E n \in {StickyBitOrder[upd.k]} :
       /\ stickyErrors' = orStickyBit(stickyErrors, upd.errfl, n)
       /\ upd' = [upd EXCEPT
                    !.k = @ + 1,
                    !.mid = FALSE,
                    !.owed = IF Bit(upd.errfl, n) = 1 THEN BitOr(@, 2 ^ n) ELSE @]
  /\ UNCHANGED <<frameFormat, padByte, pc, retries, i, val, m, address, value, ret,
                 success, lastCall, drains, firstDrain, txLog, crcBad, attempts, lastErr,
                 rawErrfl, seenRetry, seenOther, cleanAt, script, scriptK, faultsLeft,
                 otp, setter, rawRead, dev, pair>>

\* another thread calls getStickyErrorFlags
ConcurrentDrain ==
  /\ pc = "idle"
  /\ \E d \in {getStickyErrorFlags(stickyErrors)} :
       /\ stickyErrors' = d.sticky
       /\ ret' = d.ret
       /\ upd' = [upd EXCEPT
                    !.taken = BitOr(@, d.ret),
                    !.mid = upd.k \in 1 .. Len(StickyBitOrder),
                    !.owed = @ - BitAnd(@, d.ret),
                    !.twice = @ \/ BitAnd(d.ret, upd.owed) # d.ret]
  /\ lastCall' = "getStickyErrorFlags"
  /\ UNCHANGED <<frameFormat, padByte, pc, retries, i, val, m, address, value, success,
                 drains, firstDrain, txLog, crcBad, attempts, lastErr, rawErrfl, seenRetry,
                 seenOther, cleanAt, script, scriptK, faultsLeft, otp, setter, rawRead, dev, pair>>

(***************************************************************************)
(* The driver under any caller on a free bus.                              *)
(***************************************************************************)
Next ==
  \/ SetFrameFormat
  \/ SetPad
  \/ GetStickyErrorFlags
  \/ ReadReg
  \/ GetterCall
  \/ GetterAttempt
  \/ GetterLoopEnd
  \/ GetErrorFlagsCall
  \/ GetErrorFlagsAttempt
  \/ GetErrorFlagsLoopEnd
  \/ WriteCall
  \/ WriteAttempt
  \/ WriteLoopEnd

Spec == Init /\ [][Next]_vars

(***************************************************************************)
(* One retrying call, with any retries argument, on a scripted adapter.    *)
(***************************************************************************)
NextScript ==
  \/ GetterCallAny
  \/ GetterAttempt
  \/ GetterLoopEnd
  \/ GetErrorFlagsCallAny
  \/ GetErrorFlagsAttempt
  \/ GetErrorFlagsLoopEnd
  \/ WriteCallAny
  \/ WriteAttempt
  \/ WriteLoopEnd

SpecScript == InitScript /\ [][NextScript]_vars

(***************************************************************************)
(* programOTP called by a user who may change the frame format and the pad *)
(* byte between calls.                                                     *)
(***************************************************************************)
NextOTP ==
  \/ SetFrameFormat
  \/ SetPad
  \/ ProgramOTPCall
  \/ OtpGetAngle
  \/ OtpWrite
  \/ OtpSnapshot
  \/ OtpReadEcc
  \/ OtpReadChecksum
  \/ OtpVerifyShadow
  \/ OtpPoll
  \/ OtpPollTimeout
  \/ OtpVerifyOtp

SpecOTP == Init /\ [][NextOTP]_vars

(***************************************************************************)
(* The setters called by a user who may change the frame format and the    *)
(* pad byte between calls.                                                 *)
(***************************************************************************)
NextSetters ==
  \/ SetFrameFormat
  \/ SetPad
  \/ SetterCall
  \/ SetterRead
  \/ SetterWrite
  \/ SetterWriteFailed

SpecSetters == Init /\ [][NextSetters]_vars

(***************************************************************************)
(* updateStickyErrors interleaved with getStickyErrorFlags.                *)
(***************************************************************************)
NextSticky ==
  \/ UpdateStickyCall
  \/ UpdateStickyStep
  \/ ConcurrentDrain

SpecSticky == Init /\ [][NextSticky]_vars

(***************************************************************************)
(* Frames as the bus sees them.                                            *)
(***************************************************************************)
\* bytes of a frame in the current format
FrameLen ==
  CASE frameFormat = "SPI_16" -> 2
    [] frameFormat = "SPI_24" -> 3
    [] frameFormat = "SPI_32" -> 4

\* the two bytes of a frame that carry the command: R/W flag and address
CommandBytes(frame) ==
  IF frameFormat = "SPI_32" THEN <<frame[2], frame[3]>> ELSE <<frame[1], frame[2]>>

\* the 14-bit address field of a frame
FrameAddress(frame) == (CommandBytes(frame)[1] % 64) * 256 + CommandBytes(frame)[2]

\* bit 14 of the command: 1 is a read
FrameIsRead(frame) == Bit(CommandBytes(frame)[1], 6) = 1

\* the frame that asks to read register a
IsReadAddressFrame(frame, a) ==
  Len(frame) = FrameLen /\ FrameIsRead(frame) /\ FrameAddress(frame) = a

\* the frame that announces a write of register a
IsWriteAddressFrame(frame, a) ==
  Len(frame) = FrameLen /\ ~FrameIsRead(frame) /\ FrameAddress(frame) = a

\* the registers the catalog marks read-only
ReadOnlyRegisters ==
  {ERRFL_ADDRESS, DIA_ADDRESS, AGC_ADDRESS, SINDATA_ADDRESS, COSDATA_ADDRESS,
   VEL_ADDRESS, MAG_ADDRESS, ANGLEUNC_ADDRESS, ANGLECOM_ADDRESS, ECC_Checksum_ADDRESS}

\* the 16-bit word a CRC-carrying frame protects: the two bytes before the
\* trailing byte
FrameWord(frame) == frame[Len(frame) - 2] * 256 + frame[Len(frame) - 1]

\* a frame addressed to the NOP register
IsNopFrame(frame) == Len(frame) = FrameLen /\ FrameAddress(frame) = NOP_ADDRESS

\* the number of frames in log that ask to read ERRFL
RECURSIVE ErrflReads(_)
ErrflReads(log) ==
  IF log = <<>> THEN 0
  ELSE (IF IsReadAddressFrame(Head(log), ERRFL_ADDRESS) THEN 1 ELSE 0)
         + ErrflReads(Tail(log))

\* a call has returned
Returned(calls) == pc = "idle" /\ lastCall \in calls

(***************************************************************************)
(* Properties.                                                             *)
(***************************************************************************)
\* C1: in SPI_24 and SPI_32, when the CRC byte clocked in during frame B of a
\* register read differs from crc8 of the received word, CrcError is in the
\* sticky error set afterwards and the 14-bit value is still returned.
C1_CrcMismatchRaisesCrcError ==
  (Returned({"readReg"}) /\ crcBad)
    => (Bit(stickyErrors, 6) = 1 /\ ret \in {w % 16384 : w \in DataWords})

\* C2: on an adapter that gives scriptK CRC-faulty answers to angle reads and
\* valid ones after them, getAngle(retries) returns the valid value if and
\* only if scriptK <= retries.
C2_RetryBound ==
  (Returned({"getAngle"}) /\ script = "crcFault")
    => ((ret = ScriptWords.valid % 16384) <=> (scriptK <= retries))

\* C3: a retry loop makes at most retries + 1 attempts, whatever the device
\* answers and for every retries in 0..255.
C3_AtMostRetriesPlusOneAttempts == attempts <= retries + 1

\* C4: with no drain in between, the sticky error set is the union of all the
\* ERRFL values the device returned.
C4_StickyIsUnionOfErrfl == stickyErrors = rawErrfl

\* C5: a CrcError or FramingError bit that ERRFL reported during a retrying
\* getter call is in the sticky error set when the call returns.
C5_RetryBitKeptAfterGetter ==
  (Returned(Getters) /\ seenRetry # 0)
    => BitAnd(stickyErrors, seenRetry) = seenRetry

\* C6: sticky bits other than CrcError and FramingError never trigger a retry
\* (a getter loop goes on only after an attempt that drained one of those two),
\* and such a bit, present before the call or reported during it, is in the
\* sticky error set when the getter returns.
C6_OtherBitsKeptAfterGetter ==
  /\ (pc \in GetterLoops /\ attempts >= 1) => BitAnd(lastErr, retryMask) # 0
  /\ Returned(Getters) => BitAnd(stickyErrors, seenOther) = seenOther

\* C7: a getStickyErrorFlags call returns exactly what the store held and
\* leaves it empty, and a second call with no transaction in between returns
\* the empty set.
C7_DrainIdempotent ==
  /\ [](drains = 2 => ret = 0)
  /\ [][lastCall' = "getStickyErrorFlags"
         => (ret' = stickyErrors /\ stickyErrors' = 0)]_vars

\* reached: a first drain returned a non-empty set and a second one followed
C7_Witness == drains = 2 /\ firstDrain # 0 /\ ret = 0

\* the latest attempt was one of a high-level register read
ReadAttempted ==
  \/ pc \in GetterLoops \cup {"getErrorFlags"}
       /\ (attempts >= 1 \/ pc = "getZeroPosition_l")
  \/ Returned(Getters \cup {"readReg", "getErrorFlags"})

\* C8: every attempt of a high-level register read hands exactly four frames
\* to the bus, in this order: the address frame of the target register, a NOP
\* frame, the address frame of ERRFL (0x0001), a NOP frame.
C8_FourFramesPerRead ==
  ReadAttempted
    => /\ Len(txLog) = 4
       /\ IsReadAddressFrame(txLog[1], address)
       /\ IsNopFrame(txLog[2])
       /\ IsReadAddressFrame(txLog[3], ERRFL_ADDRESS)
       /\ IsNopFrame(txLog[4])

\* reached: getAngle has returned in the 32-bit format after a retry
C8_Witness ==
  /\ Returned({"getAngle"})
  /\ frameFormat = "SPI_32"
  /\ attempts = 2
  /\ Len(txLog) = 4

\* C9: each writeRegister attempt and each getErrorFlags attempt reads ERRFL
\* exactly once: one ERRFL address frame.
C9_OneErrflReadPerAttempt ==
  (attempts >= 1 /\ (pc \in {"writeRegister", "getErrorFlags"}
                      \/ Returned({"writeRegister", "getErrorFlags"})))
    => ErrflReads(txLog) = 1

\* C10: writeRegister returns true if and only if one of its first
\* retries + 1 attempts read an ERRFL value without CrcError and FramingError.
C10_WriteResult ==
  Returned({"writeRegister"})
    => (success <=> (cleanAt >= 1 /\ cleanAt <= retries + 1))

\* C11: between the entry of programOTP and its return, no frame of two bytes
\* (a Format16 frame, which carries no CRC) is handed to the bus, whatever the
\* frame format was at entry.
C11_OtpNeverInFormat16 == ~otp.shortFrame

\* C12: when programOTP returns, on whichever path, the frame format is the one
\* it had when programOTP was called, and the pad byte is unchanged.
C12_OtpRestoresFormat ==
  Returned({"programOTP"})
    => (frameFormat = otp.entryFormat /\ padByte = otp.entryPad)

\* reached: programOTP, called in the 16-bit format with a pad byte set, has
\* returned true
C12_Witness ==
  /\ Returned({"programOTP"})
  /\ otp.entryFormat = "SPI_16"
  /\ otp.entryPad # 0
  /\ otp.result

\* C13: if a register write issued inside programOTP reported failure,
\* programOTP returns false.
C13_OtpFailsOnWriteFailure ==
  (Returned({"programOTP"}) /\ otp.anyFailed) => ~otp.result

\* C14: once a write issued before the burn has reported failure, no PROG write
\* with PROGOTP = 1 is emitted in that programOTP call.
C14_NoBurnAfterFailedWrite ==
  otp.preBurnFailed
    => \A k \in 1 .. Len(otp.progWrites) : BitAnd(otp.progWrites[k], PROGOTP) = 0

\* C15: if a shadow register re-read after the ECC writes differs from its
\* snapshot, programOTP returns at once, returns false, has written nothing to
\* PROG, and has restored the frame format of its entry.
C15_OtpAbortsOnShadowMismatch ==
  otp.preMismatch
    => /\ pc = "idle"
       /\ ~otp.result
       /\ otp.progWrites = <<>>
       /\ Returned({"programOTP"}) => frameFormat = otp.entryFormat

\* reached: programOTP, called in the 16-bit format, has returned after a
\* shadow register differed from its snapshot
C15_Witness ==
  /\ Returned({"programOTP"})
  /\ otp.preMismatch
  /\ otp.entryFormat = "SPI_16"
  /\ Len(otp.volatileShadow) = ShadowLast - ShadowFirst + 1

\* a step that polls PROG
OtpPollStep ==
  /\ pc = "otp_poll"
  /\ pc' # "idle"

\* the steps of programOTP in program order
OtpStepOrder ==
  <<"otp_getAngle", "otp_zposm", "otp_zposl", "otp_snapshot", "otp_readEcc",
    "otp_eccEn", "otp_readChecksum", "otp_eccChsum", "otp_verifyShadow", "otp_progen",
    "otp_progotp", "otp_poll", "otp_progver", "otp_otpref1", "otp_otpref0",
    "otp_verifyOtp">>

\* how far the running programOTP call has got: its step, then the counter of
\* the loop the step is in
OtpProgress ==
  LET k == CHOOSE n \in 1 .. Len(OtpStepOrder) : OtpStepOrder[n] = pc
  IN  k * (PROG_POLLS + 1) + (IF pc = "otp_poll" THEN i ELSE otp.a)

\* C16: after the PROGOTP write programOTP polls PROG at most 15000 times (i
\* counts the polls made that did not read 0x0001), stops polling at the first
\* poll that reads exactly 0x0001, and returns false when no poll read 0x0001;
\* with the default retries every call returns: a running call can always
\* take a step, and every step that does not return takes it further through
\* a program of bounded length.
C16_OtpPollBounded ==
  /\ [](pc = "otp_poll"
          => /\ i <= PROG_POLLS
             /\ ~otp.pollHit
             /\ i > 0 => otp.lastPoll # 1)
  /\ [](otp.pollHit => otp.lastPoll = 1)
  /\ []((Returned({"programOTP"}) /\ ~otp.pollHit) => ~otp.result)
  /\ [](otp.timedOut => (~otp.pollHit /\ ~otp.result))
  /\ [][OtpPollStep => i < PROG_POLLS]_vars
  /\ [](pc \in OtpSteps
          => /\ ENABLED NextOTP
             /\ OtpProgress <= (Len(OtpStepOrder) + 1) * (PROG_POLLS + 1))
  /\ [][(pc \in OtpSteps /\ pc' \in OtpSteps) => OtpProgress' > OtpProgress]_vars

\* reached: programOTP has returned after 15000 polls none of which read 0x0001
C16_Witness ==
  /\ Returned({"programOTP"})
  /\ otp.timedOut
  /\ otp.lastPoll = 9

\* C17: programOTP returns true only if a poll of PROG read 0x0001, PROG was
\* then written with PROGVER set, with OTPREF set and with OTPREF clear, and the
\* five registers 0x0016 .. 0x001A were then re-read equal to the snapshot.
C17_OtpTrueOnlyIfVerified ==
  (Returned({"programOTP"}) /\ otp.result)
    => /\ otp.pollHit
       /\ Len(otp.progWrites) = 5
       /\ BitAnd(otp.progWrites[3], PROGVER) = PROGVER
       /\ BitAnd(otp.progWrites[4], OTPREF) = OTPREF
       /\ BitAnd(otp.progWrites[5], OTPREF) = 0
       /\ Len(otp.reread) = ShadowLast - ShadowFirst + 1
       /\ otp.reread = otp.volatileShadow

\* reached: programOTP has returned true in the 32-bit format
C17_Witness ==
  /\ Returned({"programOTP"})
  /\ otp.result
  /\ otp.entryFormat = "SPI_32"
  /\ otp.progWrites = <<1, 9, 73, 77, 73>>

\* C18: a writeReg of a register the catalog marks read-only emits no write
\* command frame for that address and does not report success.
C18_ReadOnlyWritesRejected ==
  ((pc = "writeRegister" \/ Returned({"writeRegister"}))
     /\ address \in ReadOnlyRegisters)
    => /\ \A k \in 1 .. Len(txLog) : ~IsWriteAddressFrame(txLog[k], address)
       /\ ~success

\* C19 as stated: whenever the driver sends the command word of a read of
\* ERRFL (0x4001) in SPI_24 or SPI_32, computeCRC8 of that word, which is the
\* CRC byte the frame carries, is 0x9D.
C19_CrcOfErrflReadIs9D ==
  frameFormat # "SPI_16"
    => \A k \in 1 .. Len(txLog) :
         IsReadAddressFrame(txLog[k], ERRFL_ADDRESS)
           => /\ FrameWord(txLog[k]) = 16384 + ERRFL_ADDRESS
              /\ computeCRC8(FrameWord(txLog[k])) = 157
              /\ txLog[k][FrameLen] = 157

\* C19 amended: computeCRC8 (polynomial 0x1D, initial value 0xC4, MSB first over
\* 16 bits, result XORed with 0xFF) gives 0x06 for the command word 0x4001 of a
\* read of ERRFL, every time the driver computes it, and that is the CRC byte
\* the frame carries.
C19_CrcOfErrflReadIs06 ==
  frameFormat # "SPI_16"
    => \A k \in 1 .. Len(txLog) :
         IsReadAddressFrame(txLog[k], ERRFL_ADDRESS)
           => /\ FrameWord(txLog[k]) = 16384 + ERRFL_ADDRESS
              /\ computeCRC8(FrameWord(txLog[k])) = 6
              /\ txLog[k][FrameLen] = 6

\* reached: a read in SPI_24 has sent the ERRFL read command <<0x40, 0x01, 0x06>>
C19_Witness ==
  /\ frameFormat = "SPI_24"
  /\ Returned({"readReg"})
  /\ txLog[3] = <<64, 1, 6>>

\* C20: in SPI_24 and SPI_32 the trailing byte of every frame the driver emits
\* (read command, NOP, write command, write data) is computeCRC8 of the 16-bit
\* word formed by the two bytes before it; the pad byte is not part of it.
C20_FrameCrcOverCommandWord ==
  frameFormat # "SPI_16"
    => \A k \in 1 .. Len(txLog) :
         /\ Len(txLog[k]) = FrameLen
         /\ txLog[k][FrameLen] = computeCRC8(FrameWord(txLog[k]))
         /\ frameFormat = "SPI_32" => txLog[k][1] = padByte

\* reached: a write attempt in SPI_32 with a pad byte set has sent its six frames
C20_Witness ==
  /\ Returned({"writeRegister"})
  /\ frameFormat = "SPI_32"
  /\ padByte # 0
  /\ Len(txLog) = 6

\* the latest attempt was one of writeRegister
WriteAttempted ==
  attempts >= 1 /\ (pc = "writeRegister" \/ Returned({"writeRegister"}))

\* C21: in every frame format, the command byte of an address frame has
\* bit 7 = 0, bit 6 = 1 for a read and 0 for a write, and bits 5..0 equal to
\* address bits 13..8; the byte after it is address bits 7..0; in the data
\* frame of a write the two bits above the 14-bit payload are 0.
C21_CommandByteLayout ==
  /\ ReadAttempted
       => /\ CommandBytes(txLog[1]) = <<64 + ((address \div 256) % 64), address % 256>>
          /\ CommandBytes(txLog[3])
               = <<64 + ((ERRFL_ADDRESS \div 256) % 64), ERRFL_ADDRESS % 256>>
  /\ WriteAttempted
       => /\ CommandBytes(txLog[1]) = <<(address \div 256) % 64, address % 256>>
          /\ CommandBytes(txLog[2]) = <<(value % 16384) \div 256, value % 256>>
          /\ CommandBytes(txLog[2])[1] < 64
          /\ CommandBytes(txLog[3])
               = <<64 + ((ERRFL_ADDRESS \div 256) % 64), ERRFL_ADDRESS % 256>>

\* reached: a value of more than 14 bits was written to a register above 0x3F00
\* in the 16-bit format
C21_Witness ==
  /\ WriteAttempted
  /\ frameFormat = "SPI_16"
  /\ address >= 16128
  /\ value >= 16384
  /\ Len(txLog) = 6

\* C22: in every frame format, frame B of a register read encodes a read of
\* the NOP register: address 0x0000 with the read flag (bit 14 of the command
\* word) set.
C22_FrameBReadsNop ==
  ReadAttempted
    => /\ IsReadAddressFrame(txLog[2], NOP_ADDRESS)
       /\ IsReadAddressFrame(txLog[4], NOP_ADDRESS)

\* C23: every transfer is one whole frame of the format selected at the time
\* of the transfer: 2 bytes in SPI_16, 3 in SPI_24, 4 in SPI_32.  The frames a
\* step hands to the bus have the length of the format in force when the step
\* began, also in the steps of programOTP that change the format before they
\* return and in the steps that follow setFrameFormat.
C23_WholeFramesOfCurrentFormat ==
  [][\A k \in 1 .. Len(txLog') : Len(txLog'[k]) = FrameLen]_vars

\* reached: programOTP, entered in SPI_16, has sent the 3-byte frames of its
\* ZPOSM write after forcing SPI_24
C23_Witness ==
  /\ pc = "otp_zposl"
  /\ otp.entryFormat = "SPI_16"
  /\ frameFormat = "SPI_24"
  /\ Len(txLog) = 6
  /\ Len(txLog[1]) = 3

\* C24: in SPI_32 the first byte of every emitted frame (command, NOP and data
\* frames alike) is the pad byte most recently set by setPad, 0 if it was never
\* set; in SPI_16 and SPI_24 no frame carries a pad byte: a frame is the two
\* bytes of a command or data word, whose top bit is 0, and in SPI_24 the CRC
\* of that word.
C24_PadByteOnlyInFormat32 ==
  \A k \in 1 .. Len(txLog) :
    /\ frameFormat = "SPI_32" => (Len(txLog[k]) = 4 /\ txLog[k][1] = padByte)
    /\ frameFormat = "SPI_16" => (Len(txLog[k]) = 2 /\ txLog[k][1] < 128)
    /\ frameFormat = "SPI_24"
         => /\ Len(txLog[k]) = 3
            /\ txLog[k][1] < 128
            /\ txLog[k][3] = computeCRC8(txLog[k][1] * 256 + txLog[k][2])

\* reached: with the pad byte set to 0xA5, getAngle has sent its frames in
\* SPI_32
C24_Witness ==
  /\ Returned({"getAngle"})
  /\ frameFormat = "SPI_32"
  /\ padByte = 165
  /\ Len(txLog) = 4
  /\ txLog[2][1] = 165

\* the frames of the latest write attempt carry register reg and value v
WriteFramesCarry(reg, v) ==
  /\ Len(txLog) = 6
  /\ IsWriteAddressFrame(txLog[1], reg)
  /\ CommandBytes(txLog[2]) = <<v \div 256, v % 256>>

\* C25: setZeroPosition(v) writes ZPOSM with (v >> 6) & 0xFF and then ZPOSL
\* with v & 0x3F (0x1234 gives 0x48 and 0x34), and returns true if and only if
\* both register writes succeed.
C25_SetZeroPosition ==
  Returned({"setZeroPosition"})
    => LET v == setter.arg.angleLSB
           w == setter.writes
       IN  /\ Len(w) \in {1, 2}
           /\ w[1].reg = ZPOSM_ADDRESS
           /\ w[1].value = (v \div 64) % 256
           /\ Len(w) = 2 => (w[2].reg = ZPOSL_ADDRESS /\ w[2].value = v % 64)
           /\ v = 4660 => (w[1].value = 72 /\ (Len(w) = 2 => w[2].value = 52))
           /\ WriteFramesCarry(w[Len(w)].reg, w[Len(w)].value)
           /\ success <=> (Len(w) = 2 /\ w[1].ok /\ w[2].ok)

\* reached: setZeroPosition(0x1234) has returned true after its two writes
C25_Witness ==
  /\ Returned({"setZeroPosition"})
  /\ setter.arg.angleLSB = 4660
  /\ Len(setter.writes) = 2
  /\ success

\* C26: configureInterface(abi, uvw, pwm), for all eight argument combinations:
\* the DISABLE value written has ABI_off = not abi and UVW_off = not uvw; the
\* SETTINGS2 value written has UVW_ABI = 1 exactly when abi is false and uvw is
\* true, and PWMon = pwm.
C26_ConfigureInterface ==
  Returned({"configureInterface"})
    => LET a == setter.arg
           w == setter.writes
       IN  /\ Len(w) \in {1, 2}
           /\ w[1].reg = DISABLE_ADDRESS
           /\ Bit(w[1].value, 1) = (IF a.abi THEN 0 ELSE 1)
           /\ Bit(w[1].value, 0) = (IF a.uvw THEN 0 ELSE 1)
           /\ Len(w) = 2
                => /\ w[2].reg = SETTINGS2_ADDRESS
                   /\ Bit(w[2].value, 3) = (IF ~a.abi /\ a.uvw THEN 1 ELSE 0)
                   /\ Bit(w[2].value, 7) = (IF a.pwm THEN 1 ELSE 0)
           /\ WriteFramesCarry(w[Len(w)].reg, w[Len(w)].value)

\* reached: configureInterface(true, true, false) has written both registers
\* over values that had all four bits set
C26_Witness ==
  /\ Returned({"configureInterface"})
  /\ setter.arg = [abi |-> TRUE, uvw |-> TRUE, pwm |-> FALSE]
  /\ setter.reads = <<16383, 16383>>
  /\ Len(setter.writes) = 2
  /\ success

\* the ABIRES field (bits 7..5) of a SETTINGS3 value
AbiresOf(v) == (v \div 32) % 8

AbiresCatalog == [n \in 10 .. 14 |->
                    CASE n = 12 -> 0 [] n = 11 -> 1 [] n = 10 -> 2 [] n = 13 -> 3 [] n = 14 -> 4]

\* C28: setABIResolution(n) for n in 10..14 programs SETTINGS3.ABIRES with the
\* code the register catalog documents for an n-bit binary resolution
\* (12-bit = 0b000, 11-bit = 0b001, 10-bit = 0b010, 13-bit = 0b011,
\* 14-bit = 0b100).
C28_AbiResolutionCatalogCode ==
  (Returned({"setABIResolution"}) /\ setter.arg.resolutionBits \in 10 .. 14)
    => AbiresOf(setter.writes[1].value) = AbiresCatalog[setter.arg.resolutionBits]

\* C29: getVelocity sign-extends the 14-bit two's-complement VEL field: for a
\* register value v it returns v when v < 8192 and v - 16384 otherwise
\* (0x3FFF gives -1, 0x2000 gives -8192, 0x1FFF gives 8191); the result is in
\* -8192 .. 8191.
C29_VelocitySignExtended ==
  Returned({"getVelocity"})
    => /\ ret = (IF rawRead < 8192 THEN rawRead ELSE rawRead - 16384)
       /\ ret \in -8192 .. 8191
       /\ rawRead = 16383 => ret = -1
       /\ rawRead = 8192 => ret = -8192
       /\ rawRead = 8191 => ret = 8191

\* reached: getVelocity has returned for a VEL value of 0x2000
C29_Witness ==
  /\ Returned({"getVelocity"})
  /\ address = VEL_ADDRESS
  /\ rawRead = 8192
  /\ ret = -8192

\* C30: getErrorFlags(retries), for every retries value, returns the error
\* flags ERRFL held when the call began: if ERRFL was non-zero at the start of
\* the call, the returned value is that non-zero value.  On the scripted
\* adapter ERRFL holds ScriptErr(script) when the call begins if the sensor
\* was programmed with at least one fault.
C30_ErrorFlagsAtCallStart ==
  (/\ Returned({"getErrorFlags"})
   /\ script \in {"errflCrc", "errflFraming"}
   /\ scriptK >= 1)
    => ret = ScriptErr(script)

\* the updater thread has returned from updateStickyErrors
UpdateReturned == upd.k = Len(StickyBitOrder) + 1

\* C31: under any interleaving of the OR statements of updateStickyErrors with
\* getStickyErrorFlags from another thread, the bits set and not yet returned
\* by a drain are exactly the bits in the store, no drain returns a bit that
\* was not set since the previous drain, and once an update has returned
\* every bit of its snapshot was returned by a drain or is in the store.
C31_NoObservationLost ==
  /\ upd.owed = stickyErrors
  /\ ~upd.twice
  /\ UpdateReturned =>
       BitAnd(BitAnd(upd.errfl, 1791), BitOr(upd.taken, stickyErrors))
         = BitAnd(upd.errfl, 1791)

C31_Witness ==
  /\ UpdateReturned
  /\ upd.errfl = 65
  /\ upd.before = 0
  /\ upd.taken = 1
  /\ stickyErrors = 64

\* C32: the store never holds bit 8 or bits 11..15, and an update that no
\* drain interrupted leaves store OR (errfl AND 0x06FF).
C32_StickyOnlyMappedBits ==
  /\ BitAnd(stickyErrors, 63744) = 0
  /\ (UpdateReturned /\ upd.taken = 0) =>
       stickyErrors = BitOr(upd.before, BitAnd(upd.errfl, 1791))

C32_Witness ==
  /\ UpdateReturned
  /\ upd.errfl = 65535
  /\ upd.before = 0
  /\ stickyErrors = 1791

\* C40: a drain made while another thread is inside updateStickyErrors
\* returns either all of the bits of that snapshot or none of them.
C40_SnapshotAppliedAtomically ==
  (upd.mid /\ upd.before = 0) =>
    BitAnd(ret, BitAnd(upd.errfl, 1791)) \in {0, BitAnd(upd.errfl, 1791)}

\* C33: a getter goes on to a second attempt only if the ERRFL sweep of its
\* first attempt reported CrcError or FramingError; such a bit already in the
\* sticky set when the getter was called does not make it retry.
C33_RetryLooksAtCurrentAttempt ==
  (pc \in GetterLoops \ {"getZeroPosition_l"} /\ attempts = 1 /\ i = 1 /\ i <= retries)
    => seenRetry # 0

\* C34: among the PROG values one programOTP call writes, only the second
\* (PROGEN | PROGOTP) has PROGOTP = 1: the first is PROGEN alone and the writes
\* after the poll (PROGVER, OTPREF) carry PROGOTP = 0.
C34_BurnBitWrittenOnce ==
  \A k \in 1 .. Len(otp.progWrites) :
    /\ k = 1 => otp.progWrites[k] = PROGEN
    /\ k = 2 => otp.progWrites[k] = PROGEN + PROGOTP
    /\ k > 2 => Bit(otp.progWrites[k], 3) = 0

\* C35: programOTP goes from the zero-position write to the snapshot of
\* 0x0016..0x001A, the ECC read and the ECC write with ECC_en = 1, the read of
\* ECC_Checksum, the ECC write whose ECC_chsum is the 7-bit checksum just read
\* and whose ECC_en is 1, the shadow re-verification, the PROGEN write and the
\* PROGOTP write, in this order.
C35_OtpStepsInOrder ==
  [][/\ \A k \in 2 .. 10 :
          (pc = OtpStepOrder[k] /\ pc' \notin {pc, "idle"})
            => \/ pc' = OtpStepOrder[k + 1]
               \/ k = 2 /\ pc' = "otp_snapshot"
     /\ (pc \in {"otp_zposm", "otp_zposl"} /\ pc' # pc)
          => address' = OtpWriteAddress(pc)
     /\ (pc = "otp_snapshot" /\ otp' # otp)
          => address' = otp.a /\ otp.a \in ShadowFirst .. ShadowLast
     /\ (pc = "otp_eccEn" /\ pc' # pc)
          => address' = ECC_ADDRESS /\ Bit(value', 7) = 1
     /\ (pc = "otp_readChecksum" /\ pc' # pc)
          => address' = ECC_Checksum_ADDRESS
     /\ (pc = "otp_eccChsum" /\ pc' # pc)
          => /\ address' = ECC_ADDRESS
             /\ value' % 128 = rawRead % 128
             /\ Bit(value', 7) = 1
     /\ (pc = "otp_progen" /\ pc' # pc)
          => address' = PROG_ADDRESS /\ value' = PROGEN
     /\ (pc = "otp_progotp" /\ pc' # pc)
          => address' = PROG_ADDRESS /\ value' = PROGEN + PROGOTP]_vars

\* reached: the PROGOTP write is done, after an ECC write that carried the
\* checksum 0x55 read from ECC_Checksum
C35_Witness ==
  /\ pc = "otp_poll"
  /\ otp.progWrites = <<PROGEN, PROGEN + PROGOTP>>
  /\ otp.ecc = 4821
  /\ Len(otp.volatileShadow) = ShadowLast - ShadowFirst + 1

\* C36: the value a single-field setter writes is the value it read from the
\* same register with its own field set from the argument and every other
\* bit as read.
C36_SetterReadModifyWrite ==
  (setter.name \in SingleFieldSetters /\ Len(setter.writes) = 1)
    => LET f == SetterField(setter.name)
           r == setter.reads[1]
           w == setter.writes[1]
       IN  /\ Len(setter.reads) = 1
           /\ w.reg = f.reg
           /\ \A b \in 0 .. 15 :
                Bit(w.value, b) =
                  IF b \in f.lo .. (f.lo + f.width - 1)
                    THEN Bit(SetterFieldValue(setter.name, setter.arg), b - f.lo)
                    ELSE Bit(r, b)

\* reached: setHysteresis(NONE) on a fault-free bus read 0x1234 from SETTINGS3
\* and wrote 0x123C
C36_Witness ==
  /\ Returned({"setHysteresis"})
  /\ success
  /\ setter.arg.hys = 3
  /\ setter.reads = <<4660>>
  /\ setter.writes = <<[reg |-> SETTINGS3_ADDRESS, value |-> 4668, ok |-> TRUE]>>
  /\ rawErrfl = 0

\* the setters that write two registers, and the two registers in order
TwoRegisterSetters == {"setZeroPosition", "configureInterface"}
FirstRegister(name) == IF name = "setZeroPosition" THEN ZPOSM_ADDRESS ELSE DISABLE_ADDRESS
SecondRegister(name) == IF name = "setZeroPosition" THEN ZPOSL_ADDRESS ELSE SETTINGS2_ADDRESS

\* C38: in setZeroPosition and configureInterface, once the write of the first
\* register (ZPOSM, DISABLE) has failed after its retries the operation has
\* returned false with that one write made, and a write frame addressed to the
\* second register (ZPOSL, SETTINGS2) is emitted only after a first write that
\* succeeded.
C38_SecondWriteNeedsFirst ==
  setter.name \in TwoRegisterSetters
    => /\ (Len(setter.writes) >= 1 /\ ~setter.writes[1].ok)
            => /\ Returned({setter.name})
               /\ ~success
               /\ Len(setter.writes) = 1
               /\ setter.writes[1].reg = FirstRegister(setter.name)
               /\ Len(txLog) = 6
               /\ IsWriteAddressFrame(txLog[1], FirstRegister(setter.name))
       /\ (Len(txLog) = 6 /\ IsWriteAddressFrame(txLog[1], SecondRegister(setter.name)))
            => /\ Len(setter.writes) >= 1
               /\ setter.writes[1].ok
               /\ setter.writes[1].reg = FirstRegister(setter.name)

\* reached: configureInterface has returned false after its DISABLE write failed
C38_Witness ==
  /\ Returned({"configureInterface"})
  /\ ~success
  /\ Len(setter.reads) = 2
  /\ setter.writes # <<>>
  /\ setter.writes[1].reg = DISABLE_ADDRESS
  /\ ~setter.writes[1].ok

(***************************************************************************)
(* setZeroPosition and getZeroPosition against a sensor that stores what   *)
(* is written and reports no errors: each call is one step.                *)
(***************************************************************************)
\* what that sensor answers to a read of a register holding word, and to the
\* ERRFL read after it
StoredAnswers(word) == <<RxGood(frameFormat, word), RxGood(frameFormat, 0)>>

\* the 14-bit word the sensor latches from the data frame of a write
StoredWord(frame) == (CommandBytes(frame)[1] % 64) * 256 + CommandBytes(frame)[2]

\* one getter loop of getZeroPosition from its pass k on, against that sensor
RECURSIVE storedGetterLoop(_, _, _, _, _)
storedGetterLoop(sticky, loop, word, k, r) ==
  LET rd == readRegister(sticky, Target(loop), StoredAnswers(word))
      d == getStickyErrorFlags(rd.sticky)
      next == (k + 1) % (UINT8_MAX + 1)
  IN  IF BitAnd(d.ret, retryMask) = 0 \/ ~(next <= r)
        THEN [val |-> Field(loop, rd.val), sticky |-> d.sticky, attempts |-> k + 1,
              tx |-> rd.tx, raw |-> rd.val, err |-> d.ret]
        ELSE storedGetterLoop(d.sticky, loop, word, next, r)

\* setZeroPosition(v): writeReg(m) && writeReg(l), both acknowledged at once
StoredSetZeroPosition ==
  /\ pc = "idle"
  /\ \E v \in ZeroValues, r \in SmallRetries :
     \E s \in {splitZeroPosition(v)} :
     \E w1 \in {writeAttempt(stickyErrors, ZPOSM_ADDRESS, s.m, StoredAnswers(0))} :
     \E w2 \in {writeAttempt(w1.sticky, ZPOSL_ADDRESS, s.l, StoredAnswers(0))} :
         /\ w1.ok /\ w2.ok
         /\ dev' = [zposm |-> StoredWord(w1.tx[2]),
                    zposl |-> StoredWord(w2.tx[2]),
                    arg |-> v, set |-> TRUE]
         /\ stickyErrors' = w2.sticky
         /\ txLog' = w2.tx
         /\ lastErr' = w2.err
         /\ rawErrfl' = BitOr(BitOr(rawErrfl, w2.err), w2.swept)
         /\ address' = ZPOSL_ADDRESS
         /\ value' = s.l
         /\ retries' = r
  /\ lastCall' = "setZeroPosition"
  /\ success' = TRUE
  /\ attempts' = 1
  /\ ret' = 0
  /\ rawRead' = 0
  /\ crcBad' = FALSE
  /\ seenRetry' = 0
  /\ seenOther' = 0
  /\ cleanAt' = 0
  /\ drains' = 0
  /\ firstDrain' = 0
  /\ UNCHANGED <<frameFormat, padByte, pc, i, val, m, script, scriptK, faultsLeft, otp,
                 setter, upd, pair>>

\* getZeroPosition(retries): its two loops, then the join of m and l
StoredGetZeroPosition ==
  /\ pc = "idle"
  /\ dev.set
  /\ \E r \in SmallRetries :
     \E a \in {storedGetterLoop(stickyErrors, "getZeroPosition_m", dev.zposm, 0, r)} :
     \E b \in {storedGetterLoop(a.sticky, "getZeroPosition_l", dev.zposl, 0, r)} :
         /\ ret' = joinZeroPosition(a.val, b.val)
         /\ stickyErrors' = b.sticky
         /\ txLog' = b.tx
         /\ rawRead' = b.raw
         /\ lastErr' = b.err
         /\ attempts' = a.attempts + b.attempts
         /\ retries' = r
  /\ lastCall' = "getZeroPosition"
  /\ success' = FALSE
  /\ address' = ZPOSL_ADDRESS
  /\ value' = 0
  /\ rawErrfl' = 0
  /\ crcBad' = FALSE
  /\ seenRetry' = 0
  /\ seenOther' = 0
  /\ cleanAt' = 0
  /\ drains' = 0
  /\ firstDrain' = 0
  /\ UNCHANGED <<frameFormat, padByte, pc, i, val, m, script, scriptK, faultsLeft, otp,
                 setter, upd, dev, pair>>

NextZero ==
  \/ SetFrameFormat
  \/ SetPad
  \/ ReadReg
  \/ StoredSetZeroPosition
  \/ StoredGetZeroPosition

SpecZero == Init /\ [][NextZero]_vars

\* C37: against a sensor that stores what is written and reports no errors,
\* getZeroPosition() after setZeroPosition(v) returns v & 0x3FFF, and it never
\* returns a value above 0x3FFF.
C37_ZeroPositionRoundTrip ==
  Returned({"getZeroPosition"})
    => /\ ret = dev.arg % 16384
       /\ ret <= 16383

\* reached: setZeroPosition(0xD234), then a getZeroPosition() that made a
\* second pass through a loop and returned 0x1234
C37_Witness ==
  /\ Returned({"getZeroPosition"})
  /\ dev.arg = 53812
  /\ ret = 4660
  /\ attempts = 3

(***************************************************************************)
(* Two runs of readRegister on the same driver state.                      *)
(***************************************************************************)
\* what the adapter returns during frame A of the reads of the first run, and
\* of the second
FrameAChoices ==
  {<<RxGood(frameFormat, 0), RxGood(frameFormat, 0)>>,
   <<RxGood(frameFormat, 0), RxGood(frameFormat, 65535)>>,
   <<RxCorrupt(frameFormat, 4660), RxGood(frameFormat, 65535)>>}

\* the frame carrying word w with its two top bits replaced by t, the CRC
\* byte being that of w
RxWithTop(w, t) == RxFrame(frameFormat, (w % 16384) + t * 16384, crc8[w])

\* readRegister given all four incoming frames: rx = <<frame A, frame B,
\* frame A of the ERRFL read, frame B of the ERRFL read>>
readRegisterRx(sticky, addr, rx) ==
  sweepResult(rawReadRegisterRx(addr, rx[1], rx[2]),
              rawReadRegisterRx(ERRFL_ADDRESS, rx[3], rx[4]), sticky)

\* readReg<R>() run twice from the same state: the bus answers the two runs
\* with the same 14-bit words in frame B, with one frame A per run (rxA[1],
\* rxA[2]) and with any top bits; the driver goes on from the first run
ReadRegPair ==
  /\ pc = "idle"
  /\ \E a \in PlainReads, w \in DataWords, e \in ErrflWords :
     \E rxA \in FrameAChoices :
     \E top \in {<<0, 0, 0, 0>>, <<0, 1, 2, 3>>, <<3, 2, 1, 0>>} :
     \E r1 \in {readRegisterRx(stickyErrors, a,
                  <<rxA[1], RxWithTop(w, top[1]), rxA[1], RxWithTop(e, top[2])>>)} :
     \E r2 \in {readRegisterRx(stickyErrors, a,
                  <<rxA[2], RxWithTop(w, top[3]), rxA[2], RxWithTop(e, top[4])>>)} :
         /\ pair' = [done |-> TRUE, rxA |-> rxA, top |-> top,
                     val |-> <<r1.val, r2.val>>, sticky |-> <<r1.sticky, r2.sticky>>]
         /\ stickyErrors' = r1.sticky
         /\ ret' = r1.val
         /\ rawRead' = r1.val
         /\ txLog' = r1.tx
         /\ crcBad' = r1.crcMismatch
         /\ lastErr' = r1.err
         /\ rawErrfl' = BitOr(rawErrfl, r1.err)
         /\ address' = a
  /\ PlainReturn("readReg")
  /\ attempts' = 1
  /\ drains' = 0
  /\ firstDrain' = 0
  /\ seenRetry' = 0
  /\ seenOther' = 0
  /\ cleanAt' = 0
  /\ UNCHANGED <<otp, frameFormat, padByte, pc, i, val, m, script, scriptK, faultsLeft,
                 setter, upd, dev>>

NextPair ==
  \/ SetFrameFormat
  \/ SetPad
  \/ GetStickyErrorFlags
  \/ ReadRegPair

SpecPair == Init /\ [][NextPair]_vars

\* C39: two runs of a register read that differ only in what the adapter
\* returns during frame A and in the two bits above the 14-bit data of the
\* words of frame B return the same value and leave the same sticky set.
C39_ReadDependsOnFrameB ==
  pair.done => (pair.val[1] = pair.val[2] /\ pair.sticky[1] = pair.sticky[2])

\* reached: two runs with different frames A and different top bits, both
\* returning 0x1234 and leaving CrcError in the store
C39_Witness ==
  /\ pair.done
  /\ pair.rxA[1] # pair.rxA[2]
  /\ pair.top = <<0, 1, 2, 3>>
  /\ pair.val = <<4660, 4660>>
  /\ pair.sticky = <<CrcError, CrcError>>

=============================================================================
